---- MODULE Spec2Model ----
(***************************************************************************)
(* Lead scoring, seniority correction and deduplication of the execsignals *)
(* report generators (generate_hot_leads.py, generate_monday_brief.py).    *)
(*                                                                         *)
(* Text values (titles, company names, company stage, dates) are tuples of *)
(* one-character strings, so that lower(), strip(), startswith(), slicing  *)
(* and substring tests are computed character by character.  Python None   *)
(* is the one-element tuple None for text and the number NoneNum for       *)
(* numbers (salaries are never negative in the store).                     *)
(***************************************************************************)
EXTENDS Integers, Sequences, FiniteSets, TLC

VARIABLES
    pc,        \* position in the run
    lead,      \* the lead dict handed to correct_seniority / score_lead / apply_freshness_bonus
    ref_date,  \* reference date (ordinal day number) handed to apply_freshness_bonus
    row,       \* the row as fetched from the store, never changed
    leads,     \* the list handed to deduplicate_leads
    deduped,   \* the list deduplicate_leads returned
    store,     \* the rows of the jobs table
    args,      \* the arguments of the run or of the function under study
    out,       \* what the function under study returned
    fs         \* the files of the run: store file, output directory, connection opened, files written

vars == <<pc, row, lead, ref_date, leads, deduped, store, args, out, fs>>

\* a run on a store that exists, into a directory that exists, nothing opened or written
NoFiles == [db |-> TRUE, dir |-> TRUE, made |-> FALSE, connected |-> FALSE, written |-> {}]

----------------------------------------------------------------------------
(* Python values *)

None == <<"None">>
NoneNum == 0 - 1

Truthy(n) == n # NoneNum /\ n # 0

\* x or y, on numbers
OrNum(x, y) == IF Truthy(x) THEN x ELSE y

\* (s or ""), on text
OrEmpty(s) == IF s = None THEN <<>> ELSE s

\* d.get(k, default)
Get(d, k, default) == IF k \in DOMAIN d THEN d[k] ELSE default

UpperToLower ==
    [c \in {"A","B","C","D","E","F","G","H","I","J","K","L","M",
            "N","O","P","Q","R","S","T","U","V","W","X","Y","Z"} |->
        CASE c = "A" -> "a" [] c = "B" -> "b" [] c = "C" -> "c" [] c = "D" -> "d"
          [] c = "E" -> "e" [] c = "F" -> "f" [] c = "G" -> "g" [] c = "H" -> "h"
          [] c = "I" -> "i" [] c = "J" -> "j" [] c = "K" -> "k" [] c = "L" -> "l"
          [] c = "M" -> "m" [] c = "N" -> "n" [] c = "O" -> "o" [] c = "P" -> "p"
          [] c = "Q" -> "q" [] c = "R" -> "r" [] c = "S" -> "s" [] c = "T" -> "t"
          [] c = "U" -> "u" [] c = "V" -> "v" [] c = "W" -> "w" [] c = "X" -> "x"
          [] c = "Y" -> "y" [] c = "Z" -> "z"]

\* str.lower()
Lower(s) == [i \in 1..Len(s) |-> Get(UpperToLower, s[i], s[i])]

RECURSIVE LStrip(_)
LStrip(s) == IF s # <<>> /\ Head(s) = " " THEN LStrip(Tail(s)) ELSE s

RECURSIVE RStrip(_)
RStrip(s) == IF s # <<>> /\ s[Len(s)] = " " THEN RStrip(SubSeq(s, 1, Len(s) - 1)) ELSE s

\* str.strip()
Strip(s) == RStrip(LStrip(s))

\* s[:n]
Prefix(s, n) == SubSeq(s, 1, IF Len(s) < n THEN Len(s) ELSE n)

\* s.startswith(p)
StartsWith(s, p) == Len(p) <= Len(s) /\ SubSeq(s, 1, Len(p)) = p

\* p in s
Contains(s, p) == \E i \in 1..(Len(s) - Len(p) + 1) : SubSeq(s, i, i + Len(p) - 1) = p

----------------------------------------------------------------------------
(* generate_hot_leads.py: tables *)

\* ranks are doubled, so that 3.5 is the integer 7
SENIORITY_RANK ==
    [c_level |-> 14, evp |-> 12, svp |-> 10, vp |-> 8, head_of |-> 7, head |-> 7,
     senior_director |-> 6, director |-> 4, senior_manager |-> 2, manager |-> 0]

HOT_HIRING_SIGNALS == {"growth_hire", "build_team"}
HOT_TEAM_SIGNALS == {"reports_ceo", "reports_cro", "first_hire", "build_team"}

SCORE_BASE == 10

SCORE_SENIORITY_BONUS ==
    [c_level |-> 15, evp |-> 12, svp |-> 10, vp |-> 5, head_of |-> 3, head |-> 3,
     senior_director |-> 1, director |-> 0]

SCORE_SIGNAL_BONUS ==
    [reports_ceo |-> 10, first_hire |-> 8, reports_cro |-> 6, build_team |-> 5,
     growth_hire |-> 4, immediate |-> 2, turnaround |-> 1]

SCORE_SALARY_THRESHOLDS == << <<300000, 10>>, <<200000, 7>>, <<150000, 4>>, <<100000, 2>> >>

----------------------------------------------------------------------------
(* generate_hot_leads.py: score_lead *)

SeniorityBonusPenalisingUnlisted(l) ==
    IF l.seniority_tier \in DOMAIN SCORE_SENIORITY_BONUS
    THEN SCORE_SENIORITY_BONUS[l.seniority_tier] ELSE 0 - 5

\* score += SCORE_SENIORITY_BONUS.get(tier, 0)
SeniorityBonus(l) == Get(SCORE_SENIORITY_BONUS, l.seniority_tier, 0)

\* the loop over lead["signals"] with its seen_signals set
RECURSIVE SignalLoop(_, _, _)
SignalLoop(signals, seen_signals, score) ==
    IF signals = <<>> THEN score
    ELSE LET sig_id == Head(signals).signal_id IN
         IF sig_id \notin seen_signals
         THEN SignalLoop(Tail(signals), seen_signals \cup {sig_id},
                         score + Get(SCORE_SIGNAL_BONUS, sig_id, 0))
         ELSE SignalLoop(Tail(signals), seen_signals, score)

RECURSIVE SignalLoopNoSeen(_, _, _)
SignalLoopNoSeen(signals, seen_signals, score) ==
    IF signals = <<>> THEN score
    ELSE SignalLoopNoSeen(Tail(signals), seen_signals,
                          score + Get(SCORE_SIGNAL_BONUS, Head(signals).signal_id, 0))

SignalBonusPerTag(l) == SignalLoopNoSeen(l.signals, {}, 0)

SignalBonus(l) == SignalLoop(l.signals, {}, 0)

\* growth_signals = [s for s in signals if s["signal_id"] in HOT_HIRING_SIGNALS | HOT_TEAM_SIGNALS]
growth_signals(l) ==
    SelectSeq(l.signals, LAMBDA s : s.signal_id \in (HOT_HIRING_SIGNALS \cup HOT_TEAM_SIGNALS))

MultiSignalBonus(l) == IF Len(growth_signals(l)) >= 3 THEN 5 ELSE 0

\* max_salary = annual_salary_max or annual_salary_min or 0
SalaryFigure(l) == OrNum(OrNum(l.annual_salary_max, l.annual_salary_min), 0)

\* for threshold, bonus in SCORE_SALARY_THRESHOLDS: first match, then break
RECURSIVE ThresholdLoop(_, _)
ThresholdLoop(thresholds, max_salary) ==
    IF thresholds = <<>> THEN 0
    ELSE IF max_salary >= Head(thresholds)[1] THEN Head(thresholds)[2]
    ELSE ThresholdLoop(Tail(thresholds), max_salary)

RECURSIVE ThresholdLoopStrict(_, _)
ThresholdLoopStrict(thresholds, max_salary) ==
    IF thresholds = <<>> THEN 0
    ELSE IF max_salary > Head(thresholds)[1] THEN Head(thresholds)[2]
    ELSE ThresholdLoopStrict(Tail(thresholds), max_salary)

SalaryBonusStrict(l) == ThresholdLoopStrict(SCORE_SALARY_THRESHOLDS, SalaryFigure(l))

SalaryBonus(l) == ThresholdLoop(SCORE_SALARY_THRESHOLDS, SalaryFigure(l))

\* if lead.get("company_stage"): "series" in stage or "growth" in stage
StageBonus(l) ==
    IF l.company_stage # None /\ l.company_stage # <<>>
    THEN LET stage == Lower(l.company_stage) IN
         IF Contains(stage, <<"s","e","r","i","e","s">>) \/ Contains(stage, <<"g","r","o","w","t","h">>) THEN 2 ELSE 0
    ELSE 0

score_lead(l) ==
    SCORE_BASE + SeniorityBonus(l) + SignalBonus(l) + MultiSignalBonus(l) + SalaryBonus(l)
        + StageBonus(l)

----------------------------------------------------------------------------
(* generate_monday_brief.py: correct_seniority *)

\* the title tests that return without changing the tier
ConfirmsCLevel(title) ==
    \/ StartsWith(title, <<"c","h","i","e","f"," ">>)
    \/ StartsWith(title, <<"c","e","o">>) \/ StartsWith(title, <<"c","f","o">>) \/ StartsWith(title, <<"c","o","o">>)
    \/ StartsWith(title, <<"c","t","o">>) \/ StartsWith(title, <<"c","i","o">>) \/ StartsWith(title, <<"c","m","o">>)
    \/ StartsWith(title, <<"c","r","o">>) \/ StartsWith(title, <<"c","s","o">>) \/ StartsWith(title, <<"c","p","o">>)
    \/ StartsWith(title, <<"p","r","e","s","i","d","e","n","t">>) \/ Contains(title, <<"p","r","e","s","i","d","e","n","t"," ","a","n","d">>)
    \/ Contains(title, <<"p","r","e","s","i","d","e","n","t"," ","&">>)
    \/ StartsWith(title, <<"e","x","e","c","u","t","i","v","e"," ","d","i","r","e","c","t","o","r">>)
    \/ StartsWith(title, <<"g","e","n","e","r","a","l"," ","c","o","u","n","s","e","l">>) \/ StartsWith(title, <<"m","a","n","a","g","i","n","g"," ","d","i","r","e","c","t","o","r">>)
    \/ (Contains(title, <<"f","o","u","n","d","i","n","g">>)
        /\ (Contains(title, <<"p","r","e","s","i","d","e","n","t">>) \/ Contains(title, <<"c","e","o">>)
            \/ Contains(title, <<"c","h","i","e","f">>)))

downgrade_patterns ==
    << <<"d","i","r","e","c","t","o","r",",">>, <<"d","i","r","e","c","t","o","r"," ">>, <<"s","r","."," ","d","i","r","e","c","t","o","r">>, <<"s","e","n","i","o","r"," ","d","i","r","e","c","t","o","r">>,
       <<"m","a","n","a","g","e","r",",">>, <<"m","a","n","a","g","e","r"," ">>, <<"s","r","."," ","m","a","n","a","g","e","r">>, <<"s","e","n","i","o","r"," ","m","a","n","a","g","e","r">>,
       <<"c","o","o","r","d","i","n","a","t","o","r">>, <<"a","n","a","l","y","s","t">>, <<"s","p","e","c","i","a","l","i","s","t">>, <<"a","s","s","o","c","i","a","t","e">>,
       <<"a","d","v","i","s","o","r">>, <<"i","n","t","e","r","n">>, <<"a","s","s","i","s","t","a","n","t">> >>

\* title.startswith(pattern) or f" {pattern}" in title[:30], for some pattern
MatchesDowngrade(title) ==
    \E i \in 1..Len(downgrade_patterns) :
        \/ StartsWith(title, downgrade_patterns[i])
        \/ Contains(Prefix(title, 30), <<" ">> \o downgrade_patterns[i])

DowngradedTierEvp == "evp"

\* the tier a downgraded lead is given
DowngradedTier == "vp"

correct_seniority_downgrade_first(l) ==
    IF l.seniority_tier # "c_level" THEN l
    ELSE LET title == Strip(Lower(OrEmpty(l.title))) IN
         IF MatchesDowngrade(title) THEN [l EXCEPT !.seniority_tier = DowngradedTier]
         ELSE l

correct_seniority(l) ==
    IF l.seniority_tier # "c_level" THEN l
    ELSE LET title == Strip(Lower(OrEmpty(l.title))) IN
         IF ConfirmsCLevel(title) THEN l
         ELSE IF MatchesDowngrade(title) THEN [l EXCEPT !.seniority_tier = DowngradedTier]
         ELSE l

----------------------------------------------------------------------------
(* generate_monday_brief.py: apply_freshness_bonus *)

DigitValue ==
    [c \in {"0","1","2","3","4","5","6","7","8","9"} |->
        CASE c = "0" -> 0 [] c = "1" -> 1 [] c = "2" -> 2 [] c = "3" -> 3 [] c = "4" -> 4
          [] c = "5" -> 5 [] c = "6" -> 6 [] c = "7" -> 7 [] c = "8" -> 8 [] c = "9" -> 9]

AllDigits(s) == \A i \in 1..Len(s) : s[i] \in DOMAIN DigitValue

RECURSIVE Number(_)
Number(s) == IF s = <<>> THEN 0 ELSE 10 * Number(SubSeq(s, 1, Len(s) - 1)) + DigitValue[s[Len(s)]]

IsLeap(y) == (y % 4 = 0 /\ y % 100 # 0) \/ y % 400 = 0

DaysInMonth(y, m) ==
    IF m = 2 THEN (IF IsLeap(y) THEN 29 ELSE 28)
    ELSE IF m \in {4, 6, 9, 11} THEN 30 ELSE 31

RECURSIVE DaysBeforeMonth(_, _)
DaysBeforeMonth(y, m) == IF m = 1 THEN 0 ELSE DaysBeforeMonth(y, m - 1) + DaysInMonth(y, m - 1)

\* date.toordinal(): days since 0001-01-01, that day being 1
Ordinal(y, m, d) ==
    (y - 1) * 365 + ((y - 1) \div 4) - ((y - 1) \div 100) + ((y - 1) \div 400)
        + DaysBeforeMonth(y, m) + d

ValueError == 0 - 2

\* datetime.strptime(s, "%Y-%m-%d") on zero-padded text, as a day number; ValueError when
\* the text is not a date
Strptime(s) ==
    IF /\ Len(s) = 10 /\ s[5] = "-" /\ s[8] = "-"
       /\ AllDigits(SubSeq(s, 1, 4)) /\ AllDigits(SubSeq(s, 6, 7)) /\ AllDigits(SubSeq(s, 9, 10))
    THEN LET y == Number(SubSeq(s, 1, 4))
             m == Number(SubSeq(s, 6, 7))
             d == Number(SubSeq(s, 9, 10))
         IN IF y >= 1 /\ m \in 1..12 /\ d \in 1..DaysInMonth(y, m)
            THEN Ordinal(y, m, d) ELSE ValueError
    ELSE ValueError

FreshnessDeltaSwapped(days_ago) ==
    IF days_ago <= 2 THEN 5
    ELSE IF days_ago <= 4 THEN 10
    ELSE IF days_ago <= 7 THEN 2
    ELSE IF days_ago > 14 THEN 0 - 5
    ELSE 0

\* the if / elif chain on days_ago
FreshnessDelta(days_ago) ==
    IF days_ago <= 2 THEN 10
    ELSE IF days_ago <= 4 THEN 5
    ELSE IF days_ago <= 7 THEN 2
    ELSE IF days_ago > 14 THEN 0 - 5
    ELSE 0

apply_freshness_bonus(l, ref) ==
    IF l.date_posted = None \/ l.date_posted = <<>> THEN l
    ELSE LET posted_dt == Strptime(Prefix(l.date_posted, 10)) IN
         IF posted_dt = ValueError THEN l
         ELSE [l EXCEPT !.score = @ + FreshnessDelta(ref - posted_dt)]

----------------------------------------------------------------------------
(* generate_monday_brief.py: deduplicate_leads *)

DedupKeyCaseSensitive(l) == <<OrEmpty(l.company_name_normalized), OrEmpty(l.title)>>

\* key = ((company_name_normalized or "").lower(), (title or "").lower())
DedupKey(l) == <<Lower(OrEmpty(l.company_name_normalized)), Lower(OrEmpty(l.title))>>

RECURSIVE SeenLoopLastWins(_, _)
SeenLoopLastWins(ls, seen) ==
    IF ls = <<>> THEN seen
    ELSE LET l == Head(ls)
             key == DedupKey(l)
             at == {i \in 1..Len(seen) : seen[i].key = key}
         IN IF at = {}
            THEN SeenLoopLastWins(Tail(ls), Append(seen, [key |-> key, lead |-> l]))
            ELSE LET i == CHOOSE i \in at : TRUE IN
                 IF l.score >= seen[i].lead.score
                 THEN SeenLoopLastWins(Tail(ls), [seen EXCEPT ![i].lead = l])
                 ELSE SeenLoopLastWins(Tail(ls), seen)

\* the loop filling the dict seen; the dict is the sequence of its (key, lead) items in
\* insertion order, which assigning to a key already present does not change
RECURSIVE SeenLoop(_, _)
SeenLoop(ls, seen) ==
    IF ls = <<>> THEN seen
    ELSE LET l == Head(ls)
             key == DedupKey(l)
             at == {i \in 1..Len(seen) : seen[i].key = key}
         IN IF at = {}
            THEN SeenLoop(Tail(ls), Append(seen, [key |-> key, lead |-> l]))
            ELSE LET i == CHOOSE i \in at : TRUE IN
                 IF l.score > seen[i].lead.score
                 THEN SeenLoop(Tail(ls), [seen EXCEPT ![i].lead = l])
                 ELSE SeenLoop(Tail(ls), seen)

\* list(seen.values())
Values(seen) == [i \in 1..Len(seen) |-> seen[i].lead]

RECURSIVE InsertByScoreStrict(_, _)
InsertByScoreStrict(sorted, x) ==
    IF sorted = <<>> THEN <<x>>
    ELSE IF Head(sorted).score > x.score
         THEN <<Head(sorted)>> \o InsertByScoreStrict(Tail(sorted), x)
         ELSE <<x>> \o sorted

\* list.sort(key=score, reverse=True): stable, leads of equal score keep their order
RECURSIVE InsertByScore(_, _)
InsertByScore(sorted, x) ==
    IF sorted = <<>> THEN <<x>>
    ELSE IF Head(sorted).score >= x.score
         THEN <<Head(sorted)>> \o InsertByScore(Tail(sorted), x)
         ELSE <<x>> \o sorted

RECURSIVE SortByScore(_, _)
SortByScore(ls, sorted) ==
    IF ls = <<>> THEN sorted ELSE SortByScore(Tail(ls), InsertByScore(sorted, Head(ls)))

deduplicate_leads(ls) == SortByScore(Values(SeenLoop(ls, <<>>)), <<>>)

----------------------------------------------------------------------------
(* Inputs *)

MaxTags == 3
MaxLeads == 3

TierNone == "None"

\* every tier of SENIORITY_RANK, a tier the tables do not list, and NULL
Tiers == DOMAIN SENIORITY_RANK \cup {"intern", TierNone}

\* job_signals rows (signal_type, signal_id); build_team is filed under two types
TagCatalogue ==
    << [signal_type |-> "hiring_signals", signal_id |-> "growth_hire"],
       [signal_type |-> "hiring_signals", signal_id |-> "build_team"],
       [signal_type |-> "team_structure", signal_id |-> "build_team"],
       [signal_type |-> "team_structure", signal_id |-> "reports_ceo"],
       [signal_type |-> "hiring_signals", signal_id |-> "immediate"],
       [signal_type |-> "segment", signal_id |-> "enterprise"] >>

\* the signal rows of one job, in catalogue order, rows repeated or not
TagLists ==
    UNION { { [i \in 1..n |-> TagCatalogue[ix[i]]] :
                ix \in {f \in [1..n -> 1..Len(TagCatalogue)] :
                          \A i \in 1..n, j \in 1..n : i < j => f[i] <= f[j]} } :
            n \in 0..MaxTags }

\* <<annual_salary_max, annual_salary_min>>
Salaries ==
    { <<NoneNum, NoneNum>>, <<0, 120000>>, <<NoneNum, 300000>>, <<99999, 400000>>,
      <<100000, NoneNum>>, <<149999, 100000>>, <<150000, 150000>>, <<199999, 150000>>,
      <<200000, 180000>>, <<299999, NoneNum>>, <<300000, 250000>> }

Stages == { None, <<>>, <<"S","e","r","i","e","s"," ","B">>, <<"G","R","O","W","T","H"," ","e","q","u","i","t","y">>, <<"P","u","b","l","i","c">> }

Titles ==
    { None,
      <<"D","i","r","e","c","t","o","r",","," ","C","E","O"," ","I","n","i","t","i","a","t","i","v","e","s">>,
      <<"C","h","i","e","f"," ","E","x","e","c","u","t","i","v","e"," ","O","f","f","i","c","e","r">>,
      <<"S","e","n","i","o","r"," ","D","i","r","e","c","t","o","r",","," ","C","E","O"," ","I","n","i","t","i","a","t","i","v","e","s">>,
      <<"C","E","O"," ","A","d","v","i","s","o","r">>,
      <<"V","i","c","e"," ","P","r","e","s","i","d","e","n","t"," ","a","n","d"," ","D","i","r","e","c","t","o","r"," ","o","f"," ","S","a","l","e","s">>,
      <<"H","e","a","d"," ","o","f"," ","C","E","O"," ","O","f","f","i","c","e">>,
      <<" "," ","E","x","e","c","u","t","i","v","e"," ","A","s","s","i","s","t","a","n","t"," ","t","o"," ","t","h","e"," ","C","E","O">>,
      <<"G","l","o","b","a","l"," ","H","e","a","d"," ","o","f"," ","R","e","v","e","n","u","e"," ","O","p","e","r","a","t","i","o","n","s"," ","A","n","a","l","y","s","t">>,
      <<"R","e","g","i","o","n","a","l"," ","S","a","l","e","s"," ","M","a","n","a","g","e","r",","," ","O","f","f","i","c","e"," ","o","f"," ","t","h","e"," ","C","E","O">>,
      <<"F","o","u","n","d","i","n","g"," ","C","E","O"," ","A","s","s","o","c","i","a","t","e">>,
      <<"V","P"," ","o","f"," ","S","a","l","e","s">> }

DatePosted == <<"2","0","2","6","-","0","2","-","2","7">>

BaseRow ==
    [id |-> 1,
     title |-> <<"V","P"," ","o","f"," ","S","a","l","e","s">>,
     company_name_normalized |-> <<"a","c","m","e">>,
     seniority_tier |-> "vp",
     signals |-> <<>>,
     annual_salary_max |-> NoneNum,
     annual_salary_min |-> NoneNum,
     company_stage |-> None,
     date_posted |-> DatePosted]

\* a row that differs from BaseRow in the fields score_lead reads
ScoreRow(t, sg, sal, st) ==
    [BaseRow EXCEPT !.seniority_tier = t, !.signals = sg, !.annual_salary_max = sal[1],
                    !.annual_salary_min = sal[2], !.company_stage = st]

\* a row that differs from BaseRow in the fields correct_seniority reads
CorrectRow(t, ti) == [BaseRow EXCEPT !.seniority_tier = t, !.title = ti]

FreshSalaries == { <<NoneNum, NoneNum>>, <<0, 120000>>, <<300000, 250000>> }

\* NULL, a date, a timestamp of the same day, and text that is no date
FreshDates == { None, DatePosted, <<"2","0","2","6","-","0","2","-","2","7","T","0","8",":","1","5",":","0","0">>, <<"2","0","2","6","-","0","2","-","3","0">> }

\* a row that differs from BaseRow in the fields the final score depends on
FreshRow(t, sg, sal, d) ==
    [BaseRow EXCEPT !.seniority_tier = t, !.signals = sg, !.annual_salary_max = sal[1],
                    !.annual_salary_min = sal[2], !.date_posted = d]

\* reference dates: the posting date and 2, 3, 5, 8, 14 and 15 days later
RefDates == { Strptime(DatePosted) + k : k \in {0, 2, 3, 5, 8, 14, 15} }

DedupCompanies == { None, <<"A","c","m","e">>, <<"a","c","m","e">> }
DedupTitles == { <<"C","F","O">>, <<"c","f","o">>, <<"V","P">> }
DedupScores == { 35, 40 }

\* scored leads as deduplicate_leads reads them; id is the position in the list
ScoredLead(i, c, t, s) == [id |-> i, company_name_normalized |-> c, title |-> t, score |-> s]

\* ten postings, two of which share a (company, title) key, with scores 40 and 35
TenPostings ==
    << ScoredLead(1, <<"A","c","m","e">>, <<"C","F","O">>, 40),
       ScoredLead(2, <<"b","e","t","a">>, <<"C","F","O">>, 52),
       ScoredLead(3, <<"a","c","m","e">>, <<"c","f","o">>, 35),
       ScoredLead(4, <<"g","a","m","m","a">>, <<"C","F","O">>, 31),
       ScoredLead(5, <<"A","c","m","e">>, <<"V","P">>, 40),
       ScoredLead(6, <<"b","e","t","a">>, <<"V","P">>, 27),
       ScoredLead(7, <<"g","a","m","m","a">>, <<"V","P">>, 35),
       ScoredLead(8, None, <<"C","F","O">>, 22),
       ScoredLead(9, None, <<"V","P">>, 22),
       ScoredLead(10, <<"d","e","l","t","a">>, None, 18) >>

----------------------------------------------------------------------------
(* Operations *)

\* brief main: correct_seniority(lead)
CorrectSeniority ==
    /\ pc = "fetched"
    /\ lead' = correct_seniority(lead)
    /\ pc' = "corrected"
    /\ UNCHANGED <<row, ref_date, leads, deduped, store, args, out, fs>>

\* both mains: lead["score"] = score_lead(lead)
ScoreLead ==
    /\ pc \in {"fetched", "corrected"}
    /\ lead' = ("score" :> score_lead(lead)) @@ lead
    /\ pc' = "scored"
    /\ UNCHANGED <<row, ref_date, leads, deduped, store, args, out, fs>>

\* brief main: apply_freshness_bonus(lead, ref_date)
ApplyFreshnessBonus ==
    /\ pc = "scored"
    /\ \E ref \in RefDates :
        /\ ref_date' = ref
        /\ lead' = apply_freshness_bonus(lead, ref)
    /\ pc' = "fresh"
    /\ UNCHANGED <<row, leads, deduped, store, args, out, fs>>

\* brief main: leads = deduplicate_leads(leads)
DeduplicateLeads ==
    /\ pc = "scored_all"
    /\ deduped' = deduplicate_leads(leads)
    /\ pc' = "deduped"
    /\ UNCHANGED <<row, lead, ref_date, leads, store, args, out, fs>>

\* no store, no arguments and no result: the run is about leads already in memory
NoStore == store = <<>> /\ args = <<>> /\ out = <<>> /\ fs = NoFiles

\* one lead, as fetched
InitLead(r) ==
    /\ pc = "fetched"
    /\ row = r
    /\ lead = r
    /\ ref_date = NoneNum
    /\ leads = <<>>
    /\ deduped = <<>>
    /\ NoStore

InitScore ==
    \E t \in Tiers, sg \in TagLists, sal \in Salaries, st \in Stages :
        InitLead(ScoreRow(t, sg, sal, st))

NextScore == ScoreLead
SpecScore == InitScore /\ [][NextScore]_vars

InitFresh ==
    \E t \in Tiers, sg \in TagLists, sal \in FreshSalaries, d \in FreshDates :
        InitLead(FreshRow(t, sg, sal, d))

NextFresh == ScoreLead \/ ApplyFreshnessBonus
SpecFresh == InitFresh /\ [][NextFresh]_vars

InitCorrect == \E t \in Tiers, ti \in Titles : InitLead(CorrectRow(t, ti))

NextCorrect == CorrectSeniority \/ ScoreLead
SpecCorrect == InitCorrect /\ [][NextCorrect]_vars

\* a list of at most MaxLeads scored leads, or the ten postings
InitDedup ==
    /\ pc = "scored_all"
    /\ \/ \E n \in 0..MaxLeads :
            \E f \in [1..n -> DedupCompanies \X DedupTitles \X DedupScores] :
                leads = [i \in 1..n |-> ScoredLead(i, f[i][1], f[i][2], f[i][3])]
       \/ leads = TenPostings
    /\ deduped = <<>>
    /\ row = BaseRow
    /\ lead = BaseRow
    /\ ref_date = NoneNum
    /\ NoStore

NextDedup == DeduplicateLeads
SpecDedup == InitDedup /\ [][NextDedup]_vars

----------------------------------------------------------------------------
(* generate_monday_brief.py: compute_repost_counts and the repost loop of main *)

VP_TIERS == <<"vp", "svp", "evp", "c_level">>

InTiers(tier, tiers) == \E i \in 1..Len(tiers) : tiers[i] = tier

\* SQL LOWER(x): NULL for NULL
SqlLower(s) == IF s = None THEN None ELSE Lower(s)

\* SQL date(x): the calendar day of a timestamp, NULL for NULL and for text that is no date
SqlDate(s) ==
    IF s = None \/ Strptime(Prefix(s, 10)) = ValueError THEN None ELSE Prefix(s, 10)

\* WHERE seniority_tier IN VP_TIERS AND is_active = 1 AND company_name_normalized IS NOT NULL
RepostRows(jobs) ==
    SelectSeq(jobs, LAMBDA j : /\ InTiers(j.seniority_tier, VP_TIERS)
                               /\ j.is_active = 1
                               /\ j.company_name_normalized # None)

\* GROUP BY LOWER(company_name_normalized), LOWER(title)
RepostGroup(j) == <<SqlLower(j.company_name_normalized), SqlLower(j.title)>>

ScrapeCountRows(rows, g) == Cardinality({ i \in 1..Len(rows) : RepostGroup(rows[i]) = g })

\* COUNT(DISTINCT date(date_scraped)) of a group; NULL days are not counted
ScrapeCount(rows, g) ==
    Cardinality({ SqlDate(rows[i].date_scraped) :
                    i \in { k \in 1..Len(rows) : RepostGroup(rows[k]) = g } } \ {None})

\* the dict (company, title) -> scrape_count of the groups HAVING scrape_count > 1
compute_repost_counts(jobs) ==
    LET rows == RepostRows(jobs)
        groups == { RepostGroup(rows[i]) : i \in 1..Len(rows) }
    IN [g \in { h \in groups : ScrapeCount(rows, h) > 1 } |-> ScrapeCount(rows, g)]

attach_repost_count_scoring(l, repost_counts) ==
    ("repost_count" :> Get(repost_counts, DedupKey(l), 0))
        @@ [l EXCEPT !.score = @ + Get(repost_counts, DedupKey(l), 0)]

\* lead["repost_count"] = repost_counts.get(key, 0), key as in deduplicate_leads
attach_repost_count(l, repost_counts) ==
    ("repost_count" :> Get(repost_counts, DedupKey(l), 0)) @@ l

\* get_seniority_tiers_at_or_above: SENIORITY_RANK in the order it is written
SENIORITY_ORDER ==
    <<"c_level", "evp", "svp", "vp", "head_of", "head", "senior_director", "director",
      "senior_manager", "manager">>

get_seniority_tiers_at_or_above(min_seniority) ==
    LET min_rank == Get(SENIORITY_RANK, min_seniority, 0) IN
    SelectSeq(SENIORITY_ORDER, LAMBDA tier : SENIORITY_RANK[tier] >= min_rank)

MaxRows == 3

\* (company_name_normalized, title) of the rows of the store
RepostNames == << <<<<"A","c","m","e">>, <<"C","F","O">>>>, <<<<"a","c","m","e">>, <<"c","f","o">>>>, <<None, <<"C","F","O">>>>, <<<<"A","c","m","e">>, None>> >>

\* two timestamps of one day and one of a week later
RepostStamps == << <<"2","0","2","6","-","0","2","-","2","0"," ","0","6",":","0","0",":","0","0">>, <<"2","0","2","6","-","0","2","-","2","0"," ","1","8",":","3","0",":","0","0">>, <<"2","0","2","6","-","0","2","-","2","7"," ","0","6",":","0","0",":","0","0">> >>

\* (seniority_tier, is_active)
RepostFlags == << <<"vp", 1>>, <<"vp", 0>>, <<"director", 1>> >>

JobRow(name, stamp, flags) ==
    [company_name_normalized |-> name[1], title |-> name[2], date_scraped |-> stamp,
     seniority_tier |-> flags[1], is_active |-> flags[2]]

\* the rows a scrape may add, numbered
RepostCatalogue ==
    [i \in 1..(Len(RepostNames) * Len(RepostStamps) * Len(RepostFlags)) |->
        JobRow(RepostNames[((i - 1) % Len(RepostNames)) + 1],
               RepostStamps[(((i - 1) \div Len(RepostNames)) % Len(RepostStamps)) + 1],
               RepostFlags[((i - 1) \div (Len(RepostNames) * Len(RepostStamps))) + 1])]

\* one (company, title) pair scraped on three days
ThreeDates ==
    << JobRow(<<<<"A","c","m","e">>, <<"C","F","O">>>>, <<"2","0","2","6","-","0","2","-","2","0"," ","0","6",":","0","0",":","0","0">>, <<"vp", 1>>),
       JobRow(<<<<"A","c","m","e">>, <<"C","F","O">>>>, <<"2","0","2","6","-","0","2","-","2","7"," ","0","6",":","0","0",":","0","0">>, <<"vp", 1>>),
       JobRow(<<<<"a","c","m","e">>, <<"c","f","o">>>>, <<"2","0","2","6","-","0","3","-","0","6"," ","0","6",":","0","0",":","0","0">>, <<"vp", 1>>) >>

\* one (company, title) pair scraped five times on one day
FiveSameDay ==
    << JobRow(<<<<"A","c","m","e">>, <<"C","F","O">>>>, <<"2","0","2","6","-","0","2","-","2","7"," ","0","6",":","0","0",":","0","0">>, <<"vp", 1>>),
       JobRow(<<<<"A","c","m","e">>, <<"C","F","O">>>>, <<"2","0","2","6","-","0","2","-","2","7"," ","0","6",":","0","0",":","0","1">>, <<"vp", 1>>),
       JobRow(<<<<"a","c","m","e">>, <<"C","F","O">>>>, <<"2","0","2","6","-","0","2","-","2","7"," ","0","9",":","3","0",":","0","0">>, <<"vp", 1>>),
       JobRow(<<<<"A","c","m","e">>, <<"c","f","o">>>>, <<"2","0","2","6","-","0","2","-","2","7"," ","1","8",":","0","0",":","0","0">>, <<"vp", 1>>),
       JobRow(<<<<"A","c","m","e">>, <<"C","F","O">>>>, <<"2","0","2","6","-","0","2","-","2","7"," ","2","3",":","5","9",":","5","9">>, <<"vp", 1>>) >>

\* the scraper adds a row to the jobs table (rows are kept in catalogue order: the queries
\* do not depend on the order of the table)
InsertJob ==
    /\ pc = "store"
    /\ Len(store) < MaxRows
    /\ \E i \in 1..Len(RepostCatalogue) :
        /\ \A k \in 1..Len(RepostCatalogue) :
              (store # <<>> /\ RepostCatalogue[k] = store[Len(store)]) => k <= i
        /\ store' = Append(store, RepostCatalogue[i])
    /\ UNCHANGED <<pc, row, lead, ref_date, leads, deduped, args, out, fs>>

\* fetch_hot_leads with the floor "vp", as far as the columns above decide it
SelectVpLeads ==
    /\ pc = "store"
    /\ leads' = SelectSeq(store, LAMBDA j :
                    InTiers(j.seniority_tier, get_seniority_tiers_at_or_above("vp")))
    /\ pc' = "filtered"
    /\ UNCHANGED <<row, lead, ref_date, deduped, store, args, out, fs>>

\* brief main: repost_counts = compute_repost_counts(conn) and the loop over leads
AttachRepostCounts ==
    /\ pc = "filtered"
    /\ LET repost_counts == compute_repost_counts(store) IN
       /\ out' = repost_counts
       /\ leads' = [i \in 1..Len(leads) |-> attach_repost_count(leads[i], repost_counts)]
    /\ pc' = "reposted"
    /\ UNCHANGED <<row, lead, ref_date, deduped, store, args, fs>>

InitRepost ==
    /\ pc = "store"
    /\ store \in {<<>>, ThreeDates, FiveSameDay}
    /\ leads = <<>>
    /\ deduped = <<>>
    /\ row = BaseRow
    /\ lead = BaseRow
    /\ ref_date = NoneNum
    /\ args = <<>>
    /\ out = <<>> /\ fs = NoFiles

NextRepost == InsertJob \/ SelectVpLeads \/ AttachRepostCounts
SpecRepost == InitRepost /\ [][NextRepost]_vars

----------------------------------------------------------------------------
(* generate_monday_brief.py: is_false_positive *)

is_false_positive_without_prefixes(l) ==
    LET title == Lower(OrEmpty(l.title)) IN
    \/ Contains(title, <<"c","e","r","t","i","f","i","c","a","t","i","o","n"," ","p","r","o","g","r","a","m">>)
    \/ Contains(title, <<"f","u","t","u","r","e"," ","l","e","a","d","e","r","s"," ","p","r","o","g","r","a","m">>)
    \/ Contains(title, <<"i","n","t","e","r","n","s","h","i","p">>)
    \/ Contains(title, <<"i","n","-","t","r","a","i","n","i","n","g">>) \/ Contains(title, <<"-","i","n","-","t","r","a","i","n","i","n","g">>)

is_false_positive_case_sensitive(l) ==
    LET title == OrEmpty(l.title) IN
    \/ Contains(title, <<"c","e","r","t","i","f","i","c","a","t","i","o","n"," ","p","r","o","g","r","a","m">>)
    \/ Contains(title, <<"f","u","t","u","r","e"," ","l","e","a","d","e","r","s"," ","p","r","o","g","r","a","m">>)
    \/ Contains(title, <<"i","n","t","e","r","n","s","h","i","p">>)
    \/ StartsWith(title, <<"i","n","t","e","r","n"," ">>) \/ StartsWith(title, <<"i","n","t","e","r","n","-">>)
    \/ Contains(title, <<"i","n","-","t","r","a","i","n","i","n","g">>) \/ Contains(title, <<"-","i","n","-","t","r","a","i","n","i","n","g">>)

is_false_positive(l) ==
    LET title == Lower(OrEmpty(l.title)) IN
    \/ Contains(title, <<"c","e","r","t","i","f","i","c","a","t","i","o","n"," ","p","r","o","g","r","a","m">>)
    \/ Contains(title, <<"f","u","t","u","r","e"," ","l","e","a","d","e","r","s"," ","p","r","o","g","r","a","m">>)
    \/ Contains(title, <<"i","n","t","e","r","n","s","h","i","p">>)
    \/ StartsWith(title, <<"i","n","t","e","r","n"," ">>) \/ StartsWith(title, <<"i","n","t","e","r","n","-">>)
    \/ Contains(title, <<"i","n","-","t","r","a","i","n","i","n","g">>) \/ Contains(title, <<"-","i","n","-","t","r","a","i","n","i","n","g">>)

----------------------------------------------------------------------------
(* dates as text: comparison in SQL, strftime *)

\* the characters of dates, of timestamps and of the text n/a, by their code
CharCode(c) ==
    CASE c = " " -> 32 [] c = "-" -> 45 [] c = "/" -> 47 [] c = ":" -> 58 [] c = "T" -> 84
      [] c = "a" -> 97 [] c = "n" -> 110
      [] OTHER -> 48 + DigitValue[c]

\* a <= b for text, as SQLite compares it
RECURSIVE TextLeq(_, _)
TextLeq(a, b) ==
    IF a = <<>> THEN TRUE
    ELSE IF b = <<>> THEN FALSE
    ELSE IF a[1] = b[1] THEN TextLeq(Tail(a), Tail(b))
    ELSE CharCode(a[1]) < CharCode(b[1])

TextLess(a, b) == a # b /\ TextLeq(a, b)

\* the calendar years the dates of the store fall in
Years == 2025..2027

YearOf(n) == CHOOSE y \in Years : Ordinal(y, 1, 1) <= n /\ n < Ordinal(y + 1, 1, 1)

MonthOf(n) ==
    CHOOSE m \in 1..12 : Ordinal(YearOf(n), m, 1) <= n
                          /\ n < Ordinal(YearOf(n), m, 1) + DaysInMonth(YearOf(n), m)

DigitChar == <<"0", "1", "2", "3", "4", "5", "6", "7", "8", "9">>

TwoDigits(k) == <<DigitChar[(k \div 10) + 1], DigitChar[(k % 10) + 1]>>

\* strftime("%Y-%m-%d") of a day number
Strftime(n) ==
    LET y == YearOf(n)
        m == MonthOf(n)
        d == n - Ordinal(y, m, 1) + 1
    IN TwoDigits(y \div 100) \o TwoDigits(y % 100) \o <<"-">> \o TwoDigits(m) \o <<"-">>
         \o TwoDigits(d)

----------------------------------------------------------------------------
(* generate_hot_leads.py: fetch_hot_leads; generate_monday_brief.py: main *)

\* the signal rows the query of fetch_hot_leads joins on
HotSignalRow(s) ==
    \/ s.signal_type = "hiring_signals" /\ s.signal_id \in {"growth_hire"}
    \/ s.signal_type = "team_structure"
         /\ s.signal_id \in {"build_team", "reports_ceo", "reports_cro", "first_hire"}

\* ORDER BY date_posted DESC; rows of one date are kept in the order of the table
RECURSIVE InsertByDatePosted(_, _)
InsertByDatePosted(sorted, x) ==
    IF sorted = <<>> THEN <<x>>
    ELSE IF TextLeq(x.date_posted, Head(sorted).date_posted)
         THEN <<Head(sorted)>> \o InsertByDatePosted(Tail(sorted), x)
         ELSE <<x>> \o sorted

RECURSIVE SortByDatePosted(_, _)
SortByDatePosted(ls, sorted) ==
    IF ls = <<>> THEN sorted
    ELSE SortByDatePosted(Tail(ls), InsertByDatePosted(sorted, Head(ls)))

\* the columns of a job that the lead dict carries and the steps below read
LeadOf(j) == [k \in DOMAIN BaseRow |-> j[k]]

\* tiers = get_seniority_tiers_at_or_above(min_seniority); if not tiers: the warning is
\* printed and the tiers at or above vp are taken
selected_tiers(min_seniority) ==
    LET tiers == get_seniority_tiers_at_or_above(min_seniority) IN
    IF tiers = <<>>
    THEN [warned |-> TRUE, tiers |-> get_seniority_tiers_at_or_above("vp")]
    ELSE [warned |-> FALSE, tiers |-> tiers]

\* now: the day number of datetime.now()
fetch_hot_leads(jobs, days, min_seniority, now) ==
    LET tiers == selected_tiers(min_seniority).tiers
        cutoff_date == Strftime(now - days)
        matching == SelectSeq(jobs, LAMBDA j :
                        /\ InTiers(j.seniority_tier, tiers)
                        /\ j.has_salary = 1
                        /\ j.date_posted # None
                        /\ TextLeq(cutoff_date, j.date_posted)
                        /\ \E i \in 1..Len(j.signals) : HotSignalRow(j.signals[i]))
        ordered == SortByDatePosted(matching, <<>>)
    IN [i \in 1..Len(ordered) |-> LeadOf(ordered[i])]

\* SELECT MAX(date_posted) FROM jobs WHERE is_active = 1; NULL when there is none
RECURSIVE MaxDatePosted(_, _)
MaxDatePosted(jobs, best) ==
    IF jobs = <<>> THEN best
    ELSE LET j == Head(jobs) IN
         IF j.is_active = 1 /\ j.date_posted # None
               /\ (best = None \/ TextLess(best, j.date_posted))
         THEN MaxDatePosted(Tail(jobs), j.date_posted)
         ELSE MaxDatePosted(Tail(jobs), best)

\* the day of the latest posting of an active job, else today
_get_data_reference_date(jobs, now) ==
    LET latest == MaxDatePosted(jobs, None) IN
    IF latest # None /\ latest # <<>> THEN Strptime(Prefix(latest, 10)) ELSE now

score_leads_scoring_first(ls, ref) ==
    SortByScore([i \in 1..Len(ls) |->
                    LET l == correct_seniority(ls[i]) IN
                    apply_freshness_bonus(("score" :> score_lead(ls[i])) @@ l, ref)], <<>>)

\* the loop of main over the leads, and leads.sort by score, descending
score_leads(ls, ref) ==
    SortByScore([i \in 1..Len(ls) |->
                    LET l == correct_seniority(ls[i]) IN
                    apply_freshness_bonus(("score" :> score_lead(l)) @@ l, ref)], <<>>)

\* [l for l in leads if not is_false_positive(l)]
filter_false_positives(ls) == SelectSeq(ls, LAMBDA l : ~is_false_positive(l))

SliceFromEnd(ls, n) ==
    IF n >= 0 THEN SubSeq(ls, (IF Len(ls) > n THEN Len(ls) - n ELSE 0) + 1, Len(ls))
    ELSE SubSeq(ls, 1 - n, Len(ls))

\* leads[:n]
SliceTo(ls, n) ==
    IF n >= 0 THEN Prefix(ls, n)
    ELSE Prefix(ls, IF Len(ls) + n > 0 THEN Len(ls) + n ELSE 0)

\* if args.top: leads = leads[:args.top]
truncate(ls, top) == IF top # 0 THEN SliceTo(ls, top) ELSE ls

MaxJobs == 3

\* values of --top: a negative number, 0, and two limits
Tops == {0 - 1, 0, 1, 2}

Days == 7

\* the day the brief is run: the Monday after the latest posting, or two weeks later
Today == Strptime(<<"2","0","2","6","-","0","3","-","0","2">>)

Clock == {Today, Today + 14}

\* a job of Acme with salary and a hot signal
BriefJob(title, tier, posted, scraped, active) ==
    [has_salary |-> 1, date_scraped |-> scraped, is_active |-> active]
      @@ [BaseRow EXCEPT !.title = title, !.company_name_normalized = <<"A","c","m","e">>,
                         !.seniority_tier = tier, !.date_posted = posted,
                         !.annual_salary_max = 200000, !.annual_salary_min = 180000,
                         !.signals = <<TagCatalogue[1]>>]

\* the jobs a store may hold: one opening posted twice under titles that differ in case,
\* an internship, a CFO opening, an old posting and an inactive one of the first opening
BriefCatalogue ==
    << BriefJob(<<"V","P"," ","o","f"," ","S","a","l","e","s">>, "vp", <<"2","0","2","6","-","0","2","-","2","7">>, <<"2","0","2","6","-","0","2","-","2","7"," ","0","6",":","0","0",":","0","0">>, 1),
       BriefJob(<<"v","p"," ","o","f"," ","s","a","l","e","s">>, "svp", <<"2","0","2","6","-","0","2","-","2","6">>, <<"2","0","2","6","-","0","2","-","2","6"," ","0","6",":","0","0",":","0","0">>, 1),
       BriefJob(<<"S","a","l","e","s"," ","I","n","t","e","r","n","s","h","i","p">>, "svp", <<"2","0","2","6","-","0","2","-","2","7">>, <<"2","0","2","6","-","0","2","-","2","7"," ","0","6",":","0","0",":","0","0">>, 1),
       BriefJob(<<"C","F","O">>, "c_level", <<"2","0","2","6","-","0","2","-","2","6">>, <<"2","0","2","6","-","0","2","-","2","6"," ","0","6",":","0","0",":","0","0">>, 1),
       BriefJob(<<"C","F","O">>, "vp", <<"2","0","2","6","-","0","2","-","2","7">>, <<"2","0","2","6","-","0","2","-","2","7"," ","0","6",":","0","0",":","0","0">>, 1),
       BriefJob(<<"V","P"," ","o","f"," ","S","a","l","e","s">>, "vp", <<"2","0","2","6","-","0","2","-","1","0">>, <<"2","0","2","6","-","0","2","-","1","0"," ","0","6",":","0","0",":","0","0">>, 1),
       BriefJob(<<"V","P"," ","o","f"," ","S","a","l","e","s">>, "vp", <<"2","0","2","6","-","0","2","-","2","7">>, <<"2","0","2","6","-","0","2","-","2","0"," ","0","6",":","0","0",":","0","0">>, 0) >>

\* titles for is_false_positive, NULL among them
FpTitles ==
    << None,
       <<"V","P"," ","o","f"," ","S","a","l","e","s">>,
       <<"S","a","l","e","s"," ","L","e","a","d","e","r","s","h","i","p"," ","C","e","r","t","i","f","i","c","a","t","i","o","n"," ","P","r","o","g","r","a","m">>,
       <<"C","e","r","t","i","f","i","c","a","t","i","o","n"," ","P","r","o","g","r","a","m","s"," ","L","e","a","d">>,
       <<"F","U","T","U","R","E"," ","L","E","A","D","E","R","S"," ","P","R","O","G","R","A","M"," ","2","0","2","6">>,
       <<"S","u","m","m","e","r"," ","I","n","t","e","r","n","s","h","i","p",","," ","F","i","n","a","n","c","e">>,
       <<"I","n","t","e","r","n"," ","F","i","n","a","n","c","e">>,
       <<"I","n","t","e","r","n","-","M","a","r","k","e","t","i","n","g">>,
       <<"I","N","T","E","R","N"," ","-"," ","S","t","r","a","t","e","g","y">>,
       <<"I","n","t","e","r","n">>,
       <<"I","n","t","e","r","n","a","l"," ","A","u","d","i","t"," ","V","P">>,
       <<"V","P",","," ","I","n","t","e","r","n"," ","P","r","o","g","r","a","m","s">>,
       <<" ","I","n","t","e","r","n"," ","F","i","n","a","n","c","e">>,
       <<"M","a","n","a","g","e","r","-","i","n","-","T","r","a","i","n","i","n","g">>,
       <<"C","F","O"," ","I","n","-","T","r","a","i","n","i","n","g">>,
       <<"V","P"," ","o","f"," ","T","r","a","i","n","i","n","g">>,
       <<"C","h","i","e","f"," ","C","e","r","t","i","f","i","c","a","t","i","o","n"," ","O","f","f","i","c","e","r">> >>

\* a job as BriefJob makes it, with a salary below every threshold
LowPaid(j) == [j EXCEPT !.annual_salary_max = 90000, !.annual_salary_min = 80000]

\* three stores: postings older than 14 days at the latest posting, one of them below vp;
\* a c_level job whose title names a subordinate role; an internship posted twice under
\* titles that differ in case, next to a posting of a VP
BriefScenarios ==
    { << BriefJob(<<"V","P"," ","o","f"," ","S","a","l","e","s">>, "vp", <<"2","0","2","6","-","0","2","-","2","7">>, <<"2","0","2","6","-","0","2","-","2","7"," ","0","6",":","0","0",":","0","0">>, 1),
         LowPaid(BriefJob(<<"C","F","O">>, "vp", <<"2","0","2","6","-","0","2","-","1","0">>, <<"2","0","2","6","-","0","2","-","1","0"," ","0","6",":","0","0",":","0","0">>, 1)),
         LowPaid(BriefJob(<<"S","a","l","e","s"," ","D","i","r","e","c","t","o","r">>, "director", <<"2","0","2","6","-","0","2","-","1","0">>,
                          <<"2","0","2","6","-","0","2","-","1","0"," ","0","6",":","0","0",":","0","0">>, 1)) >>,
      << BriefJob(<<"D","i","r","e","c","t","o","r",","," ","C","E","O"," ","I","n","i","t","i","a","t","i","v","e","s">>, "c_level", <<"2","0","2","6","-","0","2","-","2","7">>,
                  <<"2","0","2","6","-","0","2","-","2","7"," ","0","6",":","0","0",":","0","0">>, 1),
         BriefJob(<<"C","h","i","e","f"," ","E","x","e","c","u","t","i","v","e"," ","O","f","f","i","c","e","r">>, "c_level", <<"2","0","2","6","-","0","2","-","2","6">>,
                  <<"2","0","2","6","-","0","2","-","2","6"," ","0","6",":","0","0",":","0","0">>, 1) >>,
      << BriefJob(<<"S","a","l","e","s"," ","I","n","t","e","r","n","s","h","i","p">>, "vp", <<"2","0","2","6","-","0","2","-","2","7">>, <<"2","0","2","6","-","0","2","-","2","7"," ","0","6",":","0","0",":","0","0">>, 1),
         BriefJob(<<"s","a","l","e","s"," ","i","n","t","e","r","n","s","h","i","p">>, "svp", <<"2","0","2","6","-","0","2","-","2","6">>, <<"2","0","2","6","-","0","2","-","2","6"," ","0","6",":","0","0",":","0","0">>, 1),
         BriefJob(<<"V","P"," ","o","f"," ","S","a","l","e","s">>, "vp", <<"2","0","2","6","-","0","2","-","2","7">>, <<"2","0","2","6","-","0","2","-","2","7"," ","0","6",":","0","0",":","0","0">>, 1) >> }

\* the jobs table: id is the rowid
BriefStore(rows) == [i \in 1..Len(rows) |-> [rows[i] EXCEPT !.id = i]]

\* conn = sqlite3.connect(args.db); ref_date = _get_data_reference_date(conn): strptime
\* raises ValueError when the latest date_posted of an active job is not a date
GetDataReferenceDate ==
    /\ pc = "start"
    /\ fs' = [fs EXCEPT !.connected = TRUE]
    /\ LET ref == _get_data_reference_date(store, args.now) IN
       IF ref = ValueError
       THEN pc' = "ValueError in strptime" /\ ref_date' = ref_date
       ELSE pc' = "connected" /\ ref_date' = ref
    /\ UNCHANGED <<row, lead, leads, deduped, store, args, out>>

FetchHotLeadsFromManager ==
    /\ pc = "connected"
    /\ leads' = fetch_hot_leads(store, args.days, "manager", args.now)
    /\ fs' = [fs EXCEPT !.connected = TRUE]
    /\ pc' = "fetched_all"
    /\ UNCHANGED <<row, lead, ref_date, deduped, store, args, out>>

\* leads = fetch_hot_leads(args.db, args.days, "vp")
FetchHotLeads ==
    /\ pc = "connected"
    /\ leads' = fetch_hot_leads(store, args.days, "vp", args.now)
    /\ fs' = [fs EXCEPT !.connected = TRUE]
    /\ pc' = "fetched_all"
    /\ UNCHANGED <<row, lead, ref_date, deduped, store, args, out>>

\* if not leads: sys.exit(0)
NoLeads ==
    /\ pc = "fetched_all"
    /\ leads = <<>>
    /\ pc' = "exit 0"
    /\ UNCHANGED <<row, lead, ref_date, leads, deduped, store, args, out, fs>>

\* correct_seniority, score_lead and apply_freshness_bonus for every lead, then the sort
\* (is_search_firm adds a flag that no later step of main reads)
ScoreLeads ==
    /\ pc = "fetched_all"
    /\ leads # <<>>
    /\ leads' = score_leads(leads, ref_date)
    /\ pc' = "scored_all"
    /\ UNCHANGED <<row, lead, ref_date, deduped, store, args, out, fs>>

\* leads = [l for l in leads if not is_false_positive(l)], of the deduplicated leads
FilterFalsePositives ==
    /\ pc = "deduped"
    /\ leads' = filter_false_positives(deduped)
    /\ pc' = "filtered"
    /\ UNCHANGED <<row, lead, ref_date, deduped, store, args, out, fs>>

\* if args.top: leads = leads[:args.top]
Truncate ==
    /\ pc = "reposted"
    /\ leads' = truncate(leads, args.top)
    /\ pc' = "truncated"
    /\ UNCHANGED <<row, lead, ref_date, deduped, store, args, out, fs>>

\* scores = [l["score"] for l in leads]; min(scores), max(scores): ValueError when empty
ScoreRange ==
    /\ pc = "truncated"
    /\ IF leads = <<>>
       THEN pc' = "ValueError" /\ out' = out
       ELSE /\ pc' = "rendering"
            /\ out' = [min |-> CHOOSE s \in {leads[i].score : i \in 1..Len(leads)} :
                                  \A i \in 1..Len(leads) : s <= leads[i].score,
                       max |-> CHOOSE s \in {leads[i].score : i \in 1..Len(leads)} :
                                  \A i \in 1..Len(leads) : s >= leads[i].score]
    /\ UNCHANGED <<row, lead, ref_date, leads, deduped, store, args, fs>>

InitBrief ==
    /\ pc = "start"
    /\ \/ \E n \in 0..MaxJobs :
            \E f \in [1..n -> 1..Len(BriefCatalogue)] :
                store = BriefStore([i \in 1..n |-> BriefCatalogue[f[i]]])
       \/ \E t \in 1..Len(FpTitles) :
            store = BriefStore(<<[BriefCatalogue[1] EXCEPT !.title = FpTitles[t]],
                                 BriefCatalogue[5]>>)
       \/ \E s \in BriefScenarios : store = BriefStore(s)
    /\ \E top \in Tops, now \in Clock, days \in {Days, 30} :
          /\ now = Today \/ top = 0
          /\ days = Days \/ \E s \in BriefScenarios : store = BriefStore(s)
          /\ args = [top |-> top, days |-> days, now |-> now]
    /\ leads = <<>>
    /\ deduped = <<>>
    /\ row = BaseRow
    /\ lead = BaseRow
    /\ ref_date = NoneNum
    /\ out = <<>> /\ fs = NoFiles

NextBrief ==
    \/ GetDataReferenceDate \/ FetchHotLeads \/ NoLeads \/ ScoreLeads \/ DeduplicateLeads
    \/ FilterFalsePositives \/ AttachRepostCounts \/ Truncate \/ ScoreRange
SpecBrief == InitBrief /\ [][NextBrief]_vars

----------------------------------------------------------------------------
(* generate_monday_brief.py: _percentile *)

\* results are in hundredths: pct / 100 is a multiple of 1/100, and so are k, c - k and k - f
percentile_of_len(values, pct) ==
    IF values = <<>> THEN 0
    ELSE LET k == Len(values) * pct
             f == k \div 100
             c == IF k % 100 = 0 THEN f ELSE f + 1
         IN IF f = c THEN 100 * values[(IF f < Len(values) THEN f ELSE Len(values) - 1) + 1]
            ELSE values[f + 1] * (c * 100 - k)
                   + values[(IF c < Len(values) THEN c ELSE Len(values) - 1) + 1] * (k - f * 100)

\* in hundredths; k is 100 * (len(values) - 1) * (pct / 100)
_percentile(values, pct) ==
    IF values = <<>> THEN 0
    ELSE LET k == (Len(values) - 1) * pct
             f == k \div 100
             c == IF k % 100 = 0 THEN f ELSE f + 1
         IN IF f = c THEN 100 * values[f + 1]
            ELSE values[f + 1] * (c * 100 - k) + values[c + 1] * (k - f * 100)

MaxValues == 4

\* annual_salary_max values, which the queries return in ascending order
SalaryValues == {5, 10, 20, 30, 40}

\* the percentiles compute_salary_benchmarks asks for, and the two ends
Percentiles == {0, 25, 50, 75, 100}

\* p25, median, p75 = _percentile(salaries, pct)
Percentile ==
    /\ pc = "salaries"
    /\ out' = _percentile(args.values, args.pct)
    /\ pc' = "percentile"
    /\ UNCHANGED <<row, lead, ref_date, leads, deduped, store, args, fs>>

InitPercentile ==
    /\ pc = "salaries"
    /\ \E n \in 0..MaxValues :
          \E s \in [1..n -> SalaryValues] :
              /\ \A i \in 1..n, j \in 1..n : i < j => s[i] <= s[j]
              /\ \E pct \in Percentiles : args = [values |-> s, pct |-> pct]
    /\ out = <<>> /\ fs = NoFiles
    /\ store = <<>>
    /\ leads = <<>>
    /\ deduped = <<>>
    /\ row = BaseRow
    /\ lead = BaseRow
    /\ ref_date = NoneNum

NextPercentile == Percentile
SpecPercentile == InitPercentile /\ [][NextPercentile]_vars

----------------------------------------------------------------------------
(* generate_monday_brief.py: compute_industry_velocity, compute_geo_breakdown *)

\* display names of the industries of the store (INDUSTRY_MAP, the entries the store uses)
INDUSTRY_MAP ==
    [raw \in {<<"H","e","a","l","t","h"," ","C","a","r","e">>, <<"I","n","t","e","r","n","e","t"," ","A","n","d"," ","S","o","f","t","w","a","r","e">>} |->
        IF raw = <<"H","e","a","l","t","h"," ","C","a","r","e">> THEN <<"H","e","a","l","t","h","c","a","r","e">> ELSE <<"S","o","f","t","w","a","r","e"," ","/"," ","S","a","a","S">>]

\* round(num / den) of Python for den > 0: to the nearest integer, halves to the even one
Round(num, den) ==
    LET q == num \div den
        r == num - q * den
    IN IF 2 * r < den THEN q
       ELSE IF 2 * r > den THEN q + 1
       ELSE IF q % 2 = 0 THEN q ELSE q + 1

\* x >= y and x < y of SQL on text; NULL compares as unknown
SqlGeq(x, y) == x # None /\ TextLeq(y, x)

SqlLeq(x, y) == x # None /\ TextLeq(x, y)

SqlLess(x, y) == x # None /\ TextLess(x, y)

\* x LIKE '%remote%'
LikeRemote(x) == x # None /\ Contains(Lower(x), <<"r","e","m","o","t","e">>)

WowStartsOfDays(ref_day, days) ==
    [current |-> Strftime(ref_day - days), prior |-> Strftime(ref_day - 2 * days)]

\* wow_current_start and wow_prior_start: 7 and 14 days before ref_date, whatever days is
WowStarts(ref_day, days) ==
    [current |-> Strftime(ref_day - 7), prior |-> Strftime(ref_day - 14)]

\* date_posted >= wow_current_start AND date_posted <= ref_str
InWowCurrent(j, wow, ref_str) ==
    /\ SqlGeq(j.date_posted, wow.current)
    /\ SqlLeq(j.date_posted, ref_str)

\* date_posted >= wow_prior_start AND date_posted < wow_current_start
InWowPrior(j, wow) ==
    /\ SqlGeq(j.date_posted, wow.prior)
    /\ SqlLess(j.date_posted, wow.current)

\* is_active = 1 AND seniority_tier IN VP_TIERS
ActiveVp(j) == j.is_active = 1 /\ InTiers(j.seniority_tier, VP_TIERS)

\* the values of a column in the order in which the table has them first
RECURSIVE FirstSeen(_, _, _)
FirstSeen(rows, col, seen) ==
    IF rows = <<>> THEN seen
    ELSE IF \E i \in 1..Len(seen) : seen[i] = Head(rows)[col]
         THEN FirstSeen(Tail(rows), col, seen)
         ELSE FirstSeen(Tail(rows), col, Append(seen, Head(rows)[col]))

\* COUNT(*) of the group of a column value
CountOf(rows, col, name) == Cardinality({ i \in 1..Len(rows) : rows[i][col] = name })

\* ORDER BY cnt DESC and sort(key=count, reverse=True); equal counts keep their order
RECURSIVE InsertByCount(_, _)
InsertByCount(sorted, x) ==
    IF sorted = <<>> THEN <<x>>
    ELSE IF Head(sorted).count >= x.count
         THEN <<Head(sorted)>> \o InsertByCount(Tail(sorted), x)
         ELSE <<x>> \o sorted

RECURSIVE SortByCount(_, _)
SortByCount(ls, sorted) ==
    IF ls = <<>> THEN sorted ELSE SortByCount(Tail(ls), InsertByCount(sorted, Head(ls)))

\* SELECT col, COUNT(*) ... GROUP BY col ORDER BY cnt DESC
GroupCounts(rows, col) ==
    LET names == FirstSeen(rows, col, <<>>) IN
    SortByCount([i \in 1..Len(names) |->
                    [name |-> names[i], count |-> CountOf(rows, col, names[i])]], <<>>)

\* wow = round((wc - wp) / wp * 100) if wp > 0 else 0
WowPct(wc, wp) == IF wp > 0 THEN Round((wc - wp) * 100, wp) ELSE 0

compute_industry_velocity(jobs, days, now) ==
    LET ref_day == _get_data_reference_date(jobs, now)
        cutoff == Strftime(ref_day - days)
        wow == WowStarts(ref_day, days)
        ref_str == Strftime(ref_day)
        rows == SelectSeq(jobs, LAMBDA j : ActiveVp(j) /\ j.company_industry # None)
        current == GroupCounts(SelectSeq(rows, LAMBDA j : SqlGeq(j.date_posted, cutoff)),
                               "company_industry")
        wow_curr == SelectSeq(rows, LAMBDA j : InWowCurrent(j, wow, ref_str))
        wow_prev == SelectSeq(rows, LAMBDA j : InWowPrior(j, wow))
        velocity == [i \in 1..Len(current) |->
                        [industry |-> Get(INDUSTRY_MAP, current[i].name, current[i].name),
                         count |-> current[i].count,
                         wow_pct |-> WowPct(CountOf(wow_curr, "company_industry", current[i].name),
                                            CountOf(wow_prev, "company_industry", current[i].name))]]
    IN Prefix(velocity, 8)

compute_geo_breakdown(jobs, days, now) ==
    LET ref_day == _get_data_reference_date(jobs, now)
        cutoff == Strftime(ref_day - days)
        wow == WowStarts(ref_day, days)
        ref_str == Strftime(ref_day)
        metro_rows == SelectSeq(jobs, LAMBDA j :
                          /\ ActiveVp(j)
                          /\ j.location_metro # None
                          /\ (j.is_remote = 0 \/ j.is_remote = NoneNum))
        remote_rows == SelectSeq(jobs, LAMBDA j :
                          /\ ActiveVp(j)
                          /\ (j.is_remote = 1 \/ LikeRemote(j.location_type)))
        current_metro == Prefix(GroupCounts(SelectSeq(metro_rows,
                                                LAMBDA j : SqlGeq(j.date_posted, cutoff)),
                                            "location_metro"), 10)
        remote_count == Len(SelectSeq(remote_rows, LAMBDA j : SqlGeq(j.date_posted, cutoff)))
        wow_curr_metro == SelectSeq(metro_rows, LAMBDA j : InWowCurrent(j, wow, ref_str))
        wow_prev_metro == SelectSeq(metro_rows, LAMBDA j : InWowPrior(j, wow))
        wow_curr_remote == Len(SelectSeq(remote_rows, LAMBDA j : InWowCurrent(j, wow, ref_str)))
        wow_prev_remote == Len(SelectSeq(remote_rows, LAMBDA j : InWowPrior(j, wow)))
        geo == [i \in 1..Len(current_metro) |->
                   [metro |-> current_metro[i].name,
                    count |-> current_metro[i].count,
                    wow_pct |-> WowPct(CountOf(wow_curr_metro, "location_metro", current_metro[i].name),
                                       CountOf(wow_prev_metro, "location_metro", current_metro[i].name))]]
        remote == [metro |-> <<"R","e","m","o","t","e">>, count |-> remote_count,
                   wow_pct |-> WowPct(wow_curr_remote, wow_prev_remote)]
    IN Prefix(SortByCount(Append(geo, remote), <<>>), 8)

\* (company_industry, location_metro, is_remote, location_type) of the jobs of the store
VelocityKinds ==
    << <<<<"H","e","a","l","t","h"," ","C","a","r","e">>, <<"N","e","w"," ","Y","o","r","k">>, 0, <<"o","n","s","i","t","e">>>>,
       <<<<"F","i","n","t","e","c","h">>, None, 1, None>>,
       <<None, <<"A","u","s","t","i","n">>, NoneNum, <<"H","y","b","r","i","d"," ","R","e","m","o","t","e">>>> >>

\* date_posted: the latest day as a date and as a timestamp, and 7, 14 and 21 days before
VelocityDates ==
    << <<"2","0","2","6","-","0","2","-","2","7">>, <<"2","0","2","6","-","0","2","-","2","7"," ","0","9",":","0","0",":","0","0">>, <<"2","0","2","6","-","0","2","-","2","0">>, <<"2","0","2","6","-","0","2","-","1","3">>,
       <<"2","0","2","6","-","0","2","-","0","6">> >>

VelocityJob(kind, posted, active) ==
    [company_industry |-> kind[1], location_metro |-> kind[2], is_remote |-> kind[3],
     location_type |-> kind[4], date_posted |-> posted, seniority_tier |-> "vp",
     is_active |-> active]

\* the active jobs a store may hold, and one job that is no longer active
VelocityCatalogue ==
    [i \in 1..(Len(VelocityKinds) * Len(VelocityDates) + 1) |->
        IF i > Len(VelocityKinds) * Len(VelocityDates)
        THEN VelocityJob(VelocityKinds[1], <<"2","0","2","6","-","0","3","-","0","6">>, 0)
        ELSE VelocityJob(VelocityKinds[((i - 1) % Len(VelocityKinds)) + 1],
                         VelocityDates[((i - 1) \div Len(VelocityKinds)) + 1], 1)]

\* the values of days: the default of --days and the default of the two functions
LookbackDays == {7, 30}

\* "industry_velocity": compute_industry_velocity(conn, days=lead_days)
ComputeIndustryVelocity ==
    /\ pc = "analytics"
    /\ out' = [industry_velocity |-> compute_industry_velocity(store, args.days, args.now)]
    /\ pc' = "industry_velocity"
    /\ UNCHANGED <<row, lead, ref_date, leads, deduped, store, args, fs>>

\* "geo_breakdown": compute_geo_breakdown(conn, days=lead_days)
ComputeGeoBreakdown ==
    /\ pc = "industry_velocity"
    /\ out' = [industry_velocity |-> out.industry_velocity,
               geo_breakdown |-> compute_geo_breakdown(store, args.days, args.now)]
    /\ pc' = "geo_breakdown"
    /\ UNCHANGED <<row, lead, ref_date, leads, deduped, store, args, fs>>

\* the jobs are in catalogue order: the aggregates count rows, whatever their order
InitVelocity ==
    /\ pc = "analytics"
    /\ \E n \in 0..MaxJobs :
          \E f \in [1..n -> 1..Len(VelocityCatalogue)] :
              /\ \A i \in 1..n, j \in 1..n : i < j => f[i] <= f[j]
              /\ store = [i \in 1..n |-> VelocityCatalogue[f[i]]]
    /\ \E days \in LookbackDays : args = [days |-> days, now |-> Today]
    /\ out = <<>> /\ fs = NoFiles
    /\ leads = <<>>
    /\ deduped = <<>>
    /\ row = BaseRow
    /\ lead = BaseRow
    /\ ref_date = NoneNum

NextVelocity == ComputeIndustryVelocity \/ ComputeGeoBreakdown
SpecVelocity == InitVelocity /\ [][NextVelocity]_vars

----------------------------------------------------------------------------
(* generate_monday_brief.py: compute_top_companies *)

COMPANY_BLOCKLIST == { <<"f","u","t","u","r","e","s","i","g","h","t">> }

SEARCH_FIRMS ==
    { <<"k","o","r","n"," ","f","e","r","r","y">>, <<"h","e","i","d","r","i","c","k"," ","&"," ","s","t","r","u","g","g","l","e","s">>, <<"h","e","i","d","r","i","c","k"," ","a","n","d"," ","s","t","r","u","g","g","l","e","s">>,
      <<"s","p","e","n","c","e","r"," ","s","t","u","a","r","t">>, <<"r","u","s","s","e","l","l"," ","r","e","y","n","o","l","d","s">>, <<"e","g","o","n"," ","z","e","h","n","d","e","r">>,
      <<"b","o","y","d","e","n">>, <<"o","d","g","e","r","s"," ","b","e","r","n","d","t","s","o","n">>, <<"s","t","a","n","t","o","n"," ","c","h","a","s","e">>, <<"d","h","r"," ","i","n","t","e","r","n","a","t","i","o","n","a","l">>,
      <<"j","m"," ","s","e","a","r","c","h">>, <<"w","i","t","t","/","k","i","e","f","f","e","r">>, <<"w","i","t","t","k","i","e","f","f","e","r">>, <<"d","i","v","e","r","s","i","f","i","e","d"," ","s","e","a","r","c","h">>,
      <<"c","a","l","d","w","e","l","l"," ","p","a","r","t","n","e","r","s">>, <<"i","s","a","a","c","s","o","n"," ","m","i","l","l","e","r">>,
      <<"r","o","b","e","r","t"," ","h","a","l","f">>, <<"r","a","n","d","s","t","a","d">>, <<"a","d","e","c","c","o">>, <<"m","a","n","p","o","w","e","r">>, <<"m","a","n","p","o","w","e","r","g","r","o","u","p">>,
      <<"k","e","l","l","y"," ","s","e","r","v","i","c","e","s">>, <<"h","a","y","s">>, <<"p","a","g","e"," ","e","x","e","c","u","t","i","v","e">>, <<"m","i","c","h","a","e","l"," ","p","a","g","e">> }

UniqueRolesCountingRows(rows, name) ==
    Cardinality({ i \in 1..Len(rows) : rows[i].company_name_normalized = name })

\* COUNT(DISTINCT title) of the group of a company; NULL titles are not counted
UniqueRoles(rows, name) ==
    Cardinality({ rows[i].title :
                    i \in { k \in 1..Len(rows) : rows[k].company_name_normalized = name } }
                \ {None})

compute_top_companies(jobs, days, now) ==
    LET ref_day == _get_data_reference_date(jobs, now)
        cutoff == Strftime(ref_day - days)
        wow == WowStarts(ref_day, days)
        rows == SelectSeq(jobs, LAMBDA j : ActiveVp(j) /\ j.company_name_normalized # None)
        in_window == SelectSeq(rows, LAMBDA j : SqlGeq(j.date_posted, cutoff))
        names == FirstSeen(in_window, "company_name_normalized", <<>>)
        groups == [i \in 1..Len(names) |->
                      [name |-> names[i], count |-> UniqueRoles(in_window, names[i])]]
        current == Prefix(SortByCount(SelectSeq(groups, LAMBDA g : g.count >= 3), <<>>), 30)
        prior_set == { rows[i].company_name_normalized :
                         i \in { k \in 1..Len(rows) : InWowPrior(rows[k], wow) } }
        kept == SelectSeq(current, LAMBDA g :
                    /\ Strip(Lower(g.name)) \notin SEARCH_FIRMS
                    /\ Strip(Lower(g.name)) \notin COMPANY_BLOCKLIST)
        companies == [i \in 1..Len(kept) |->
                         [company |-> kept[i].name, count |-> kept[i].count,
                          is_new |-> kept[i].name \notin prior_set]]
    IN Prefix(companies, 10)

CompanyJob(company, title, posted, tier, active) ==
    [company_name_normalized |-> company, title |-> title, date_posted |-> posted,
     seniority_tier |-> tier, is_active |-> active]

\* Acme posts three roles, one of them in two places; Beta posts four roles, one of them
\* two weeks ago; a search firm and a blocked company post three roles each
TopScenario ==
    << CompanyJob(<<"A","c","m","e">>, <<"C","F","O">>, <<"2","0","2","6","-","0","2","-","2","7">>, "vp", 1),
       CompanyJob(<<"A","c","m","e">>, <<"C","F","O">>, <<"2","0","2","6","-","0","2","-","2","7">>, "vp", 1),
       CompanyJob(<<"A","c","m","e">>, <<"C","T","O">>, <<"2","0","2","6","-","0","2","-","2","6">>, "c_level", 1),
       CompanyJob(<<"A","c","m","e">>, <<"C","O","O">>, <<"2","0","2","6","-","0","2","-","2","5">>, "svp", 1),
       CompanyJob(<<"B","e","t","a">>, <<"C","F","O">>, <<"2","0","2","6","-","0","2","-","2","7">>, "vp", 1),
       CompanyJob(<<"B","e","t","a">>, <<"C","T","O">>, <<"2","0","2","6","-","0","2","-","2","6">>, "vp", 1),
       CompanyJob(<<"B","e","t","a">>, <<"C","O","O">>, <<"2","0","2","6","-","0","2","-","2","5">>, "vp", 1),
       CompanyJob(<<"B","e","t","a">>, <<"C","M","O">>, <<"2","0","2","6","-","0","2","-","1","5">>, "vp", 1),
       CompanyJob(<<"K","o","r","n"," ","F","e","r","r","y">>, <<"C","F","O">>, <<"2","0","2","6","-","0","2","-","2","7">>, "vp", 1),
       CompanyJob(<<"K","o","r","n"," ","F","e","r","r","y">>, <<"C","T","O">>, <<"2","0","2","6","-","0","2","-","2","7">>, "vp", 1),
       CompanyJob(<<"K","o","r","n"," ","F","e","r","r","y">>, <<"C","O","O">>, <<"2","0","2","6","-","0","2","-","2","7">>, "vp", 1),
       CompanyJob(<<"F","u","t","u","r","e","S","i","g","h","t"," ">>, <<"C","F","O">>, <<"2","0","2","6","-","0","2","-","2","7">>, "vp", 1),
       CompanyJob(<<"F","u","t","u","r","e","S","i","g","h","t"," ">>, <<"C","T","O">>, <<"2","0","2","6","-","0","2","-","2","7">>, "vp", 1),
       CompanyJob(<<"F","u","t","u","r","e","S","i","g","h","t"," ">>, <<"C","O","O">>, <<"2","0","2","6","-","0","2","-","2","7">>, "vp", 1) >>

\* further jobs: roles of Gamma (one title in another case, one outside every window, one
\* without title, one inactive, one below vp), a fourth role of Acme, a role of a search firm
CompanyCatalogue ==
    << CompanyJob(<<"G","a","m","m","a">>, <<"C","F","O">>, <<"2","0","2","6","-","0","2","-","2","7">>, "vp", 1),
       CompanyJob(<<"G","a","m","m","a">>, <<"C","T","O">>, <<"2","0","2","6","-","0","2","-","2","7">>, "vp", 1),
       CompanyJob(<<"G","a","m","m","a">>, <<"C","O","O">>, <<"2","0","2","6","-","0","2","-","2","7">>, "vp", 1),
       CompanyJob(<<"G","a","m","m","a">>, <<"c","f","o">>, <<"2","0","2","6","-","0","2","-","2","7">>, "vp", 1),
       CompanyJob(<<"G","a","m","m","a">>, <<"C","M","O">>, <<"2","0","2","6","-","0","1","-","1","0">>, "vp", 1),
       CompanyJob(<<"G","a","m","m","a">>, None, <<"2","0","2","6","-","0","2","-","2","7">>, "vp", 1),
       CompanyJob(<<"G","a","m","m","a">>, <<"C","I","O">>, <<"2","0","2","6","-","0","2","-","2","7">>, "vp", 0),
       CompanyJob(<<"G","a","m","m","a">>, <<"C","H","R","O">>, <<"2","0","2","6","-","0","2","-","2","7">>, "director", 1),
       CompanyJob(<<"A","c","m","e">>, <<"C","I","O">>, <<"2","0","2","6","-","0","2","-","2","7">>, "vp", 1),
       CompanyJob(<<" ","H","a","y","s">>, <<"C","F","O">>, <<"2","0","2","6","-","0","2","-","2","7">>, "vp", 1) >>

\* "top_companies": compute_top_companies(conn, days=lead_days)
ComputeTopCompanies ==
    /\ pc = "analytics"
    /\ out' = compute_top_companies(store, args.days, args.now)
    /\ pc' = "top_companies"
    /\ UNCHANGED <<row, lead, ref_date, leads, deduped, store, args, fs>>

\* the jobs are in catalogue order: the aggregates count rows, whatever their order
InitCompanies ==
    /\ pc = "analytics"
    /\ \E n \in 0..MaxJobs :
          \E f \in [1..n -> 1..Len(CompanyCatalogue)] :
              /\ \A i \in 1..n, j \in 1..n : i < j => f[i] <= f[j]
              /\ \E base \in {<<>>, TopScenario} :
                    store = base \o [i \in 1..n |-> CompanyCatalogue[f[i]]]
    /\ \E days \in LookbackDays : args = [days |-> days, now |-> Today]
    /\ out = <<>> /\ fs = NoFiles
    /\ leads = <<>>
    /\ deduped = <<>>
    /\ row = BaseRow
    /\ lead = BaseRow
    /\ ref_date = NoneNum

NextCompanies == ComputeTopCompanies
SpecCompanies == InitCompanies /\ [][NextCompanies]_vars

(* generate_hot_leads.py: fetch_hot_leads on any seniority floor *)

\* jobs of four tiers, two of them below vp, all with salary and a hot signal
FetchCatalogue ==
    << BriefJob(<<"C","F","O">>, "c_level", <<"2","0","2","6","-","0","2","-","2","7">>, <<"2","0","2","6","-","0","2","-","2","7"," ","0","6",":","0","0",":","0","0">>, 1),
       BriefJob(<<"V","P"," ","o","f"," ","S","a","l","e","s">>, "vp", <<"2","0","2","6","-","0","2","-","2","6">>, <<"2","0","2","6","-","0","2","-","2","6"," ","0","6",":","0","0",":","0","0">>, 1),
       BriefJob(<<"S","a","l","e","s"," ","D","i","r","e","c","t","o","r">>, "director", <<"2","0","2","6","-","0","2","-","2","7">>, <<"2","0","2","6","-","0","2","-","2","7"," ","0","6",":","0","0",":","0","0">>, 1),
       BriefJob(<<"S","a","l","e","s"," ","M","a","n","a","g","e","r">>, "manager", <<"2","0","2","6","-","0","2","-","2","8">>, <<"2","0","2","6","-","0","2","-","2","8"," ","0","6",":","0","0",":","0","0">>, 1) >>

\* leads = fetch_hot_leads(db_path, days, min_seniority); out keeps the tiers of the query
CallFetchHotLeads ==
    /\ pc = "call"
    /\ leads' = fetch_hot_leads(store, args.days, args.min_seniority, args.now)
    /\ out' = selected_tiers(args.min_seniority)
    /\ fs' = [fs EXCEPT !.connected = TRUE]
    /\ pc' = "returned"
    /\ UNCHANGED <<row, lead, ref_date, deduped, store, args>>

\* a store of at most MaxJobs jobs and any floor: a tier, a word that is no tier, or None
InitFetch ==
    /\ pc = "call"
    /\ \E n \in 0..MaxJobs :
         \E f \in [1..n -> 1..Len(FetchCatalogue)] :
            /\ \A i \in 1..n, j \in 1..n : i < j => f[i] <= f[j]
            /\ store = BriefStore([i \in 1..n |-> FetchCatalogue[f[i]]])
    /\ \E t \in Tiers : args = [min_seniority |-> t, days |-> Days, now |-> Today]
    /\ leads = <<>>
    /\ deduped = <<>>
    /\ row = BaseRow
    /\ lead = BaseRow
    /\ ref_date = NoneNum
    /\ out = <<>> /\ fs = NoFiles

NextFetch == CallFetchHotLeads
SpecFetch == InitFetch /\ [][NextFetch]_vars

(* main of generate_hot_leads.py and of generate_monday_brief.py, with their files *)

HOT_FILES == {"hot_leads.csv", "hot_leads_email.html", "hot_leads_email.txt"}

\* file_date stands for datetime.now().strftime("%b%d")
BRIEF_FILES ==
    {"hot_leads.csv", "ExecSignals_file_date.xlsx", "MarketIntel_file_date.html",
     "MondayBrief_file_date.html", "MondayBrief_file_date.txt"}

\* output_dir.mkdir(parents=True, exist_ok=True)
mkdir(files) == [files EXCEPT !.dir = TRUE, !.made = ~files.dir]

\* hot main: if not os.path.exists(args.db): print(...); sys.exit(1)
HotCheckDb ==
    /\ pc = "main" /\ args.cli = "hot"
    /\ pc' = IF ~fs.db THEN "exit 1" ELSE "hot_checked"
    /\ UNCHANGED <<row, lead, ref_date, leads, deduped, store, args, out, fs>>

\* hot main: output_dir.mkdir(parents=True, exist_ok=True)
HotMakeOutputDir ==
    /\ pc = "hot_checked"
    /\ fs' = mkdir(fs)
    /\ pc' = "hot_ready"
    /\ UNCHANGED <<row, lead, ref_date, leads, deduped, store, args, out>>

\* hot main: leads = fetch_hot_leads(args.db, args.days, args.min_seniority)
HotFetchHotLeads ==
    /\ pc = "hot_ready"
    /\ leads' = fetch_hot_leads(store, args.days, args.min_seniority, args.now)
    /\ fs' = [fs EXCEPT !.connected = TRUE]
    /\ pc' = "hot_fetched"
    /\ UNCHANGED <<row, lead, ref_date, deduped, store, args, out>>

HotNoLeadsWritingCsv ==
    /\ pc = "hot_fetched"
    /\ leads = <<>>
    /\ fs' = [fs EXCEPT !.written = {"hot_leads.csv"}]
    /\ pc' = "exit 0"
    /\ UNCHANGED <<row, lead, ref_date, leads, deduped, store, args, out>>

\* hot main: if not leads: print(...); sys.exit(0)
HotNoLeads ==
    /\ pc = "hot_fetched"
    /\ leads = <<>>
    /\ pc' = "exit 0"
    /\ UNCHANGED <<row, lead, ref_date, leads, deduped, store, args, out, fs>>

\* hot main: lead["score"] = score_lead(lead) for every lead, then the sort
HotScoreLeads ==
    /\ pc = "hot_fetched"
    /\ leads # <<>>
    /\ leads' = SortByScore([i \in 1..Len(leads) |->
                                ("score" :> score_lead(leads[i])) @@ leads[i]], <<>>)
    /\ pc' = "hot_scored"
    /\ UNCHANGED <<row, lead, ref_date, deduped, store, args, out, fs>>

\* hot main: if args.top: leads = leads[: args.top]
HotTruncate ==
    /\ pc = "hot_scored"
    /\ leads' = truncate(leads, args.top)
    /\ pc' = "hot_truncated"
    /\ UNCHANGED <<row, lead, ref_date, deduped, store, args, out, fs>>

\* hot main: min(scores), max(scores), sum(scores)/len(scores): ValueError when empty
HotScoreRange ==
    /\ pc = "hot_truncated"
    /\ IF leads = <<>>
       THEN pc' = "ValueError" /\ out' = out
       ELSE /\ pc' = "hot_rendering"
            /\ out' = [min |-> CHOOSE s \in {leads[i].score : i \in 1..Len(leads)} :
                                  \A i \in 1..Len(leads) : s <= leads[i].score,
                       max |-> CHOOSE s \in {leads[i].score : i \in 1..Len(leads)} :
                                  \A i \in 1..Len(leads) : s >= leads[i].score]
    /\ UNCHANGED <<row, lead, ref_date, leads, deduped, store, args, fs>>

\* hot main: generate_csv and the two open(..., "w") of the email bodies
HotWriteOutputs ==
    /\ pc = "hot_rendering"
    /\ fs' = [fs EXCEPT !.written = HOT_FILES]
    /\ pc' = "done"
    /\ UNCHANGED <<row, lead, ref_date, leads, deduped, store, args, out>>

\* brief main: if not args.preview and not args.send: parser.print_help(); return
BriefMode ==
    /\ pc = "main" /\ args.cli = "brief"
    /\ pc' = IF args.mode = "none" THEN "exit 0" ELSE "brief_mode"
    /\ UNCHANGED <<row, lead, ref_date, leads, deduped, store, args, out, fs>>

BriefCheckDbAfterMkdir ==
    /\ pc = "brief_mode"
    /\ fs' = mkdir(fs)
    /\ pc' = IF ~fs.db THEN "exit 1" ELSE "brief_checked"
    /\ UNCHANGED <<row, lead, ref_date, leads, deduped, store, args, out>>

\* brief main: if not os.path.exists(args.db): print(...); sys.exit(1)
BriefCheckDb ==
    /\ pc = "brief_mode"
    /\ pc' = IF ~fs.db THEN "exit 1" ELSE "brief_checked"
    /\ UNCHANGED <<row, lead, ref_date, leads, deduped, store, args, out, fs>>

\* brief main: output_dir.mkdir(parents=True, exist_ok=True)
BriefMakeOutputDir ==
    /\ pc = "brief_checked"
    /\ fs' = mkdir(fs)
    /\ pc' = "start"
    /\ UNCHANGED <<row, lead, ref_date, leads, deduped, store, args, out>>

\* brief main: the analytics, then generate_csv, generate_excel and the three open(..., "w")
BriefWriteOutputs ==
    /\ pc = "rendering"
    /\ fs' = [fs EXCEPT !.written = BRIEF_FILES]
    /\ pc' = "done"
    /\ UNCHANGED <<row, lead, ref_date, leads, deduped, store, args, out>>

\* a posting of Acme, a false positive, a job below vp, and a job whose date_posted is not
\* a date, active or not
CliCatalogue ==
    << BriefJob(<<"V","P"," ","o","f"," ","S","a","l","e","s">>, "vp", <<"2","0","2","6","-","0","2","-","2","7">>, <<"2","0","2","6","-","0","2","-","2","7"," ","0","6",":","0","0",":","0","0">>, 1),
       BriefJob(<<"S","a","l","e","s"," ","I","n","t","e","r","n","s","h","i","p">>, "svp", <<"2","0","2","6","-","0","2","-","2","7">>, <<"2","0","2","6","-","0","2","-","2","7"," ","0","6",":","0","0",":","0","0">>, 1),
       BriefJob(<<"S","a","l","e","s"," ","D","i","r","e","c","t","o","r">>, "director", <<"2","0","2","6","-","0","2","-","2","7">>, <<"2","0","2","6","-","0","2","-","2","7"," ","0","6",":","0","0",":","0","0">>, 1),
       BriefJob(<<"C","F","O">>, "vp", <<"n","/","a">>, <<"2","0","2","6","-","0","2","-","2","7"," ","0","6",":","0","0",":","0","0">>, 1),
       BriefJob(<<"C","F","O">>, "vp", <<"n","/","a">>, <<"2","0","2","6","-","0","2","-","2","7"," ","0","6",":","0","0",":","0","0">>, 0) >>

\* --preview, --send, or neither
Modes == {"none", "preview", "send"}

\* values of --min-seniority: the default and a lower one of the choices
Floors == {"vp", "director"}

\* a store file that exists or not (then without rows), an output directory that exists
\* or not
InitCli ==
    /\ pc = "main"
    /\ \E n \in 0..MaxJobs :
         \E f \in [1..n -> 1..Len(CliCatalogue)] :
            /\ \A i \in 1..n, j \in 1..n : i < j => f[i] <= f[j]
            /\ store = BriefStore([i \in 1..n |-> CliCatalogue[f[i]]])
    /\ \E db \in BOOLEAN, dir \in BOOLEAN, top \in Tops :
          /\ (db /\ dir) \/ top = 0
          /\ db \/ store = <<>>
          /\ fs = [NoFiles EXCEPT !.db = db, !.dir = dir]
          /\ \/ \E m \in Modes :
                  args = [cli |-> "brief", mode |-> m, top |-> top, days |-> Days,
                          now |-> Today]
             \/ \E t \in Floors :
                  args = [cli |-> "hot", min_seniority |-> t, top |-> top, days |-> Days,
                          now |-> Today]
    /\ leads = <<>>
    /\ deduped = <<>>
    /\ row = BaseRow
    /\ lead = BaseRow
    /\ ref_date = NoneNum
    /\ out = <<>>

NextCli ==
    \/ HotCheckDb \/ HotMakeOutputDir \/ HotFetchHotLeads \/ HotNoLeads \/ HotScoreLeads
    \/ HotTruncate \/ HotScoreRange \/ HotWriteOutputs
    \/ BriefMode \/ BriefCheckDb \/ BriefMakeOutputDir
    \/ GetDataReferenceDate \/ FetchHotLeads \/ NoLeads \/ ScoreLeads \/ DeduplicateLeads
    \/ FilterFalsePositives \/ AttachRepostCounts \/ Truncate \/ ScoreRange
    \/ BriefWriteOutputs
SpecCli == InitCli /\ [][NextCli]_vars

(* generate_hot_leads.py: extract_team_structure, extract_extra_signals, generate_csv *)

\* the signal ids of the display columns, as text
SignalText ==
    [reports_ceo |-> <<"r","e","p","o","r","t","s","_","c","e","o">>, build_team |-> <<"b","u","i","l","d","_","t","e","a","m">>,
     enterprise |-> <<"e","n","t","e","r","p","r","i","s","e">>, mid_market |-> <<"m","i","d","_","m","a","r","k","e","t">>,
     six_figure |-> <<"s","i","x","_","f","i","g","u","r","e">>, equity |-> <<"e","q","u","i","t","y">>, plg |-> <<"p","l","g">>]

\* str.replace("_", " ")
ReplaceUnderscore(s) == [i \in 1..Len(s) |-> IF s[i] = "_" THEN " " ELSE s[i]]

IsCased(c) == \E u \in DOMAIN UpperToLower : c = u \/ c = UpperToLower[u]

ToUpper(c) ==
    IF \E u \in DOMAIN UpperToLower : UpperToLower[u] = c
    THEN CHOOSE u \in DOMAIN UpperToLower : UpperToLower[u] = c
    ELSE c

\* str.title(): a letter is upper case after a character that is no letter, else lower
Title(s) ==
    [i \in 1..Len(s) |->
        IF i > 1 /\ IsCased(s[i - 1]) THEN Get(UpperToLower, s[i], s[i]) ELSE ToUpper(s[i])]

\* sep.join(parts)
RECURSIVE Join(_, _)
Join(parts, sep) ==
    IF parts = <<>> THEN <<>>
    ELSE IF Len(parts) = 1 THEN parts[1]
    ELSE parts[1] \o sep \o Join(Tail(parts), sep)

\* sig["signal_id"].replace("_", " ").title()
DisplayName(sid) == Title(ReplaceUnderscore(SignalText[sid]))

\* the loop of extract_team_structure, seen holding the ids already listed
RECURSIVE TeamLoop(_, _, _)
TeamLoop(signals, seen, team_sigs) ==
    IF signals = <<>> THEN team_sigs
    ELSE LET sig == Head(signals) IN
         IF sig.signal_type = "team_structure" /\ sig.signal_id \notin seen
         THEN TeamLoop(Tail(signals), seen \cup {sig.signal_id},
                       Append(team_sigs, DisplayName(sig.signal_id)))
         ELSE TeamLoop(Tail(signals), seen, team_sigs)

extract_team_structure(l) == Join(TeamLoop(l.signals, {}, <<>>), <<","," ">>)

\* the key of extras a signal type is listed under
ExtrasKey ==
    [segment |-> "segment", deal_size |-> "deal_size", comp_signals |-> "comp",
     motion |-> "motion"]

\* the loop of extract_extra_signals: extras.setdefault(key, []).append(...)
RECURSIVE ExtrasLoop(_, _)
ExtrasLoop(signals, extras) ==
    IF signals = <<>> THEN extras
    ELSE LET st == Head(signals).signal_type
             sid == Head(signals).signal_id
         IN IF st \in DOMAIN ExtrasKey
            THEN ExtrasLoop(Tail(signals),
                            (ExtrasKey[st] :> Append(Get(extras, ExtrasKey[st], <<>>),
                                                     DisplayName(sid))) @@ extras)
            ELSE ExtrasLoop(Tail(signals), extras)

extract_extra_signals(l) == ExtrasLoop(l.signals, <<>>)

\* the two columns of generate_csv that list signal ids
csv_row(l) ==
    LET extras == extract_extra_signals(l) IN
    [Team_Structure |-> extract_team_structure(l),
     Segment |-> Join(Get(extras, "segment", <<>>), <<","," ">>)]

\* job_signals rows of the display columns
DisplayTags ==
    << [signal_type |-> "team_structure", signal_id |-> "reports_ceo"],
       [signal_type |-> "team_structure", signal_id |-> "build_team"],
       [signal_type |-> "hiring_signals", signal_id |-> "build_team"],
       [signal_type |-> "segment", signal_id |-> "enterprise"],
       [signal_type |-> "segment", signal_id |-> "mid_market"],
       [signal_type |-> "deal_size", signal_id |-> "six_figure"],
       [signal_type |-> "comp_signals", signal_id |-> "equity"],
       [signal_type |-> "motion", signal_id |-> "plg"] >>

\* generate_csv: writer.writerow for one lead
WriteCsvRow ==
    /\ pc = "fetched"
    /\ out' = csv_row(lead)
    /\ pc' = "row"
    /\ UNCHANGED <<row, lead, ref_date, leads, deduped, store, args, fs>>

\* a lead with at most MaxTags signal rows, in any order, rows repeated or not
InitCsv ==
    \E n \in 0..MaxTags :
        \E f \in [1..n -> 1..Len(DisplayTags)] :
            InitLead([BaseRow EXCEPT !.signals = [i \in 1..n |-> DisplayTags[f[i]]]])

NextCsv == WriteCsvRow
SpecCsv == InitCsv /\ [][NextCsv]_vars

----------------------------------------------------------------------------
(* Properties *)

\* the (lowercased normalized company, lowercased title) pair of a lead
KeyOf(l) == <<Lower(OrEmpty(l.company_name_normalized)), Lower(OrEmpty(l.title))>>

Keys(ls) == { KeyOf(ls[i]) : i \in 1..Len(ls) }

\* C1: deduplicate_leads returns exactly one lead, taken from the input, for each distinct
\* (lowercased company_name_normalized, lowercased title) key of the input: no two
\* survivors share a key, no key is lost, and the output length is the number of keys.
C1_OneSurvivorPerKey ==
    pc = "deduped" =>
        /\ \A i, j \in 1..Len(deduped) : i # j => KeyOf(deduped[i]) # KeyOf(deduped[j])
        /\ Keys(deduped) = Keys(leads)
        /\ Len(deduped) = Cardinality(Keys(leads))
        /\ \A j \in 1..Len(deduped) : \E i \in 1..Len(leads) : deduped[j] = leads[i]

\* ten postings, two sharing a key, leave nine
C1_Witness == pc = "deduped" /\ Len(leads) = 10 /\ Len(deduped) = 9

\* C2: the survivor of each key has the maximum score among the input leads of that key,
\* and among those that tie for the maximum it is the first in input order.
C2_MaxScoreFirstWins ==
    pc = "deduped" =>
        \A j \in 1..Len(deduped) :
            LET same == { i \in 1..Len(leads) : KeyOf(leads[i]) = KeyOf(deduped[j]) }
                best == { i \in same : \A k \in same : leads[k].score <= leads[i].score }
            IN /\ best # {}
               /\ \A i \in best : (\A k \in best : i <= k) => deduped[j] = leads[i]

\* two leads of one key tie for the maximum and the earlier one survives
C2_Witness ==
    /\ pc = "deduped"
    /\ \E i, k \in 1..Len(leads) :
        /\ i < k
        /\ KeyOf(leads[i]) = KeyOf(leads[k])
        /\ leads[i].score = leads[k].score
        /\ \A m \in 1..Len(leads) :
              KeyOf(leads[m]) = KeyOf(leads[i]) => leads[m].score <= leads[i].score
        /\ \E j \in 1..Len(deduped) : deduped[j] = leads[i]

\* C3: score_lead returns an integer that is at least SCORE_BASE, for every lead.
C3_ScoreAtLeastBase == pc = "scored" => lead.score \in Int /\ lead.score >= SCORE_BASE

\* a lead of an unlisted tier, without signals, salary or stage, scores exactly the base
C3_Witness ==
    /\ pc = "scored"
    /\ lead.seniority_tier \notin DOMAIN SENIORITY_RANK
    /\ lead.signals = <<>>
    /\ lead.annual_salary_max = NoneNum /\ lead.annual_salary_min = NoneNum
    /\ lead.score = SCORE_BASE

SignalIds(signals) == { signals[i].signal_id : i \in 1..Len(signals) }

\* C4: score_lead is a function of (seniority tier, set of distinct signal ids, salary
\* figure, company-stage text): a lead that agrees with the scored one on these four, its
\* tags repeated a different number of times or not, has the same score.
C4_FunctionOfDistinctIds ==
    pc = "scored" =>
        \A sg \in TagLists, sal \in Salaries :
            LET other == [row EXCEPT !.signals = sg, !.annual_salary_max = sal[1],
                                     !.annual_salary_min = sal[2]]
            IN (SignalIds(sg) = SignalIds(row.signals) /\ SalaryFigure(other) = SalaryFigure(row))
                   => score_lead(other) = lead.score

\* the signal ids the multi-signal bonus counts
GrowthIndicating == {"growth_hire", "build_team", "reports_ceo", "reports_cro", "first_hire"}

\* what the score holds beyond its other components
MultiBonusReceived(l) ==
    l.score - (SCORE_BASE + SeniorityBonus(l) + SignalBonus(l) + SalaryBonus(l) + StageBonus(l))

\* C5: the flat multi-signal bonus of 5 is added exactly when the tags hold at least 3
\* distinct growth-indicating signal ids, however often an id is repeated.
C5_BonusIffThreeDistinct ==
    pc = "scored" =>
        MultiBonusReceived(lead) =
            (IF Cardinality(SignalIds(lead.signals) \cap GrowthIndicating) >= 3 THEN 5 ELSE 0)

RECURSIVE SumOverIds(_)
SumOverIds(ids) ==
    IF ids = {} THEN 0
    ELSE LET x == CHOOSE x \in ids : TRUE IN
         Get(SCORE_SIGNAL_BONUS, x, 0) + SumOverIds(ids \ {x})

\* C6: the per-signal bonus in the score is the sum, over the distinct signal ids of the
\* lead, of the id's SCORE_SIGNAL_BONUS value, an id outside the table counting zero.
C6_SignalBonusOncePerId ==
    pc = "scored" =>
        lead.score - (SCORE_BASE + SeniorityBonus(lead) + MultiSignalBonus(lead)
                        + SalaryBonus(lead) + StageBonus(lead))
            = SumOverIds(SignalIds(lead.signals))

\* a table id occurs twice among the tags, beside an id the table does not list
C6_Witness ==
    /\ pc = "scored"
    /\ \E i, j, k \in 1..Len(lead.signals) :
        /\ i < j
        /\ lead.signals[i].signal_id = lead.signals[j].signal_id
        /\ lead.signals[i].signal_id \in DOMAIN SCORE_SIGNAL_BONUS
        /\ lead.signals[k].signal_id \notin DOMAIN SCORE_SIGNAL_BONUS

\* annual_salary_max if present and non-zero, else annual_salary_min, else 0
ClaimedSalaryFigure(l) ==
    IF l.annual_salary_max # NoneNum /\ l.annual_salary_max # 0 THEN l.annual_salary_max
    ELSE IF l.annual_salary_min # NoneNum THEN l.annual_salary_min
    ELSE 0

\* the bonus of the highest threshold the figure meets or exceeds, 0 when it meets none
ClaimedSalaryBonus(figure) ==
    LET met == { i \in 1..Len(SCORE_SALARY_THRESHOLDS) : figure >= SCORE_SALARY_THRESHOLDS[i][1] }
    IN IF met = {} THEN 0
       ELSE LET top == CHOOSE i \in met :
                           \A k \in met : SCORE_SALARY_THRESHOLDS[k][1] <= SCORE_SALARY_THRESHOLDS[i][1]
            IN SCORE_SALARY_THRESHOLDS[top][2]

SalaryBonusReceived(l) ==
    l.score - (SCORE_BASE + SeniorityBonus(l) + SignalBonus(l) + MultiSignalBonus(l)
                 + StageBonus(l))

\* C7: the salary bonus in the score is that of the highest threshold met by the salary
\* figure (max if present and non-zero, else min, else 0), boundaries inclusive: 300000
\* gives 10, 200000 gives 7, 150000 gives 4, 100000 gives 2, below 100000 nothing.
C7_SalaryBonus ==
    pc = "scored" =>
        LET figure == ClaimedSalaryFigure(lead)
            bonus == SalaryBonusReceived(lead)
        IN /\ bonus = ClaimedSalaryBonus(figure)
           /\ figure = 300000 => bonus = 10
           /\ figure = 200000 => bonus = 7
           /\ figure = 150000 => bonus = 4
           /\ figure = 100000 => bonus = 2
           /\ figure < 100000 => bonus = 0

\* a maximum salary of exactly 300000 receives the bonus of the top threshold
C7_Witness ==
    /\ pc = "scored"
    /\ lead.annual_salary_max = 300000
    /\ SalaryBonusReceived(lead) = 10

\* score_lead followed by apply_freshness_bonus
FinalScore(r, ref) == apply_freshness_bonus(("score" :> score_lead(r)) @@ r, ref).score

NormalisedTitle(r) == Strip(Lower(OrEmpty(r.title)))

\* the tier of the highest rank below the top rank of SENIORITY_RANK
NextRankBelowTop ==
    LET top == CHOOSE t \in DOMAIN SENIORITY_RANK :
                   \A u \in DOMAIN SENIORITY_RANK : SENIORITY_RANK[u] <= SENIORITY_RANK[t]
        below == { t \in DOMAIN SENIORITY_RANK : SENIORITY_RANK[t] < SENIORITY_RANK[top] }
    IN CHOOSE t \in below : \A u \in below : SENIORITY_RANK[u] <= SENIORITY_RANK[t]

Downgraded ==
    pc = "corrected" /\ row.seniority_tier = "c_level" /\ lead.seniority_tier # "c_level"

\* C9 as stated: a downgraded c_level lead gets the next rank below the top tier.
C9_DowngradeToNextRank == Downgraded => lead.seniority_tier = NextRankBelowTop

\* C9 as amended: a c_level lead whose title matches a subordinate-role pattern and no
\* confirming pattern is downgraded, and a downgraded lead gets the tier vp, which is not
\* the next rank below c_level (evp and svp rank between them).
C9_DowngradeToVp ==
    /\ (/\ pc = "corrected"
        /\ row.seniority_tier = "c_level"
        /\ MatchesDowngrade(NormalisedTitle(row))
        /\ ~ConfirmsCLevel(NormalisedTitle(row))) => Downgraded
    /\ Downgraded =>
        /\ lead.seniority_tier = "vp"
        /\ SENIORITY_RANK["vp"] < SENIORITY_RANK["svp"]
        /\ SENIORITY_RANK["svp"] < SENIORITY_RANK[NextRankBelowTop]

\* "Director, CEO Initiatives" classified c_level has been downgraded
C9_Witness ==
    /\ Downgraded
    /\ row.title = <<"D","i","r","e","c","t","o","r",","," ","C","E","O"," ","I","n","i","t","i","a","t","i","v","e","s">>

\* the confirming patterns the claim lists
ClaimedConfirming(title) ==
    \/ StartsWith(title, <<"c","h","i","e","f"," ">>)
    \/ \E a \in { <<"c","e","o">>, <<"c","f","o">>, <<"c","o","o">>, <<"c","t","o">>, <<"c","i","o">>, <<"c","m","o">>, <<"c","r","o">>, <<"c","s","o">>, <<"c","p","o">> } :
          StartsWith(title, a)
    \/ StartsWith(title, <<"p","r","e","s","i","d","e","n","t">>)
    \/ StartsWith(title, <<"e","x","e","c","u","t","i","v","e"," ","d","i","r","e","c","t","o","r">>)
    \/ StartsWith(title, <<"g","e","n","e","r","a","l"," ","c","o","u","n","s","e","l">>)
    \/ StartsWith(title, <<"m","a","n","a","g","i","n","g"," ","d","i","r","e","c","t","o","r">>)

\* C10: correct_seniority leaves the lead as it was when the tier is not c_level, when the
\* title matches a confirming pattern (a downgrade keyword in it or not), and when the
\* title matches neither list; and it never changes a field other than seniority_tier.
C10_TierKept ==
    pc = "corrected" =>
        /\ row.seniority_tier # "c_level" => lead = row
        /\ ClaimedConfirming(NormalisedTitle(row)) => lead = row
        /\ ConfirmsCLevel(NormalisedTitle(row)) => lead = row
        /\ (~ConfirmsCLevel(NormalisedTitle(row)) /\ ~MatchesDowngrade(NormalisedTitle(row)))
              => lead = row
        /\ DOMAIN lead = DOMAIN row
        /\ \A f \in DOMAIN row \ {"seniority_tier"} : lead[f] = row[f]

\* a c_level title that starts with a C-suite acronym and holds a downgrade keyword is kept
C10_Witness ==
    /\ pc = "corrected"
    /\ row.seniority_tier = "c_level"
    /\ row.title = <<"C","E","O"," ","A","d","v","i","s","o","r">>
    /\ MatchesDowngrade(NormalisedTitle(row))
    /\ lead = row


\* the calendar days on which rows of the store with the key of the lead were scraped
DaysObserved(rows, l) ==
    { Prefix(rows[i].date_scraped, 10) : i \in { k \in 1..Len(rows) : KeyOf(rows[k]) = KeyOf(l) } }

RepostAsClaimed(days) == IF Cardinality(days) >= 2 THEN Cardinality(days) ELSE 0

CountedRows == SelectSeq(store, LAMBDA j : /\ j.is_active = 1
                                           /\ InTiers(j.seniority_tier, VP_TIERS)
                                           /\ j.company_name_normalized # None
                                           /\ j.title # None)

WithoutRepost(ls) ==
    [i \in 1..Len(ls) |-> [k \in DOMAIN ls[i] \ {"repost_count"} |-> ls[i][k]]]

Ranking(ls) == [i \in 1..Len(ls) |-> <<ls[i].id, ls[i].score>>]

\* the leads of the brief, computed without the repost step
BriefLeads(jobs, a) ==
    truncate(filter_false_positives(deduplicate_leads(
                score_leads(fetch_hot_leads(jobs, a.days, "vp", a.now),
                            _get_data_reference_date(jobs, a.now)))), a.top)

\* the store with another repost history: every job scraped on one day, and every job
\* scraped on a day of its own
Histories(jobs) ==
    { [i \in 1..Len(jobs) |-> [jobs[i] EXCEPT !.date_scraped = <<"2","0","2","6","-","0","2","-","2","7"," ","0","6",":","0","0",":","0","0">>]],
      [i \in 1..Len(jobs) |->
          [jobs[i] EXCEPT !.date_scraped = <<"2","0","2","6","-","0","1","-">> \o TwoDigits(i) \o <<" ","0","6",":","0","0",":","0","0">>]] }

\* C12: attaching repost_count changes no lead's score and neither the membership nor the
\* order of the lead list, and runs that differ only in the repost history of the store
\* end with the same leads, scores and ranking.
C12_RepostLeavesRanking ==
    /\ pc = "reposted" => WithoutRepost(leads) = filter_false_positives(deduped)
    /\ pc = "truncated" =>
          \A h \in Histories(store) \cup {store} : Ranking(leads) = Ranking(BriefLeads(h, args))

\* two leads are ranked and one of them was reposted
C12_Witness ==
    /\ pc = "truncated"
    /\ Len(leads) >= 2
    /\ \E i \in 1..Len(leads) : leads[i].repost_count >= 2
    /\ \E h \in Histories(store) : compute_repost_counts(h) # compute_repost_counts(store)

\* t has the pattern p at position i, whatever the case of its letters
MatchesAt(t, i, p) ==
    /\ i + Len(p) - 1 <= Len(t)
    /\ \A k \in 1..Len(p) : Lower(<<t[i + k - 1]>>) = <<p[k]>>

ContainsAnyCase(t, p) == \E i \in 1..Len(t) : MatchesAt(t, i, p)

ClaimedFalsePositive(t) ==
    /\ t # None
    /\ \/ ContainsAnyCase(t, <<"c","e","r","t","i","f","i","c","a","t","i","o","n"," ","p","r","o","g","r","a","m">>)
       \/ ContainsAnyCase(t, <<"f","u","t","u","r","e"," ","l","e","a","d","e","r","s"," ","p","r","o","g","r","a","m">>)
       \/ ContainsAnyCase(t, <<"i","n","t","e","r","n","s","h","i","p">>)
       \/ ContainsAnyCase(t, <<"i","n","-","t","r","a","i","n","i","n","g">>)
       \/ MatchesAt(t, 1, <<"i","n","t","e","r","n"," ">>)
       \/ MatchesAt(t, 1, <<"i","n","t","e","r","n","-">>)

Retained(t) == \A i \in 1..Len(deduped) :
                  deduped[i].title = t => \E k \in 1..Len(leads) : leads[k].id = deduped[i].id

\* C13: is_false_positive is true exactly for the titles that contain, in any case,
\* "certification program", "future leaders program", "internship" or "in-training", or
\* start with "intern " or "intern-"; "Sales Leadership Certification Program" is excluded,
\* "VP of Sales" and a missing title are retained; no lead of the final list satisfies it.
C13_FalsePositiveExactly ==
    /\ pc = "filtered" =>
          /\ \A i \in 1..Len(deduped) :
                is_false_positive(deduped[i]) <=> ClaimedFalsePositive(deduped[i].title)
          /\ leads = SelectSeq(deduped, LAMBDA l : ~ClaimedFalsePositive(l.title))
          /\ \A k \in 1..Len(leads) :
                leads[k].title # <<"S","a","l","e","s"," ","L","e","a","d","e","r","s","h","i","p"," ","C","e","r","t","i","f","i","c","a","t","i","o","n"," ","P","r","o","g","r","a","m">>
          /\ Retained(<<"V","P"," ","o","f"," ","S","a","l","e","s">>)
          /\ Retained(None)
    /\ pc \in {"truncated", "rendering", "ValueError"} =>
          \A k \in 1..Len(leads) : ~is_false_positive(leads[k])

\* the certification program was deduplicated and then filtered out
C13_Witness ==
    /\ pc = "filtered"
    /\ \E i \in 1..Len(deduped) : deduped[i].title = <<"S","a","l","e","s"," ","L","e","a","d","e","r","s","h","i","p"," ","C","e","r","t","i","f","i","c","a","t","i","o","n"," ","P","r","o","g","r","a","m">>
    /\ Len(deduped) = 2
    /\ Len(leads) = 1

Min(a, b) == IF a <= b THEN a ELSE b

\* C14 as stated: the final list is the first N leads of the deduplicated, filtered,
\* score-ordered list and has min(N, number of non-false-positive deduplicated leads)
\* entries, N being the value of --top.
C14_FirstNOfFiltered ==
    pc = "truncated" =>
        LET filtered == filter_false_positives(deduped) IN
        /\ WithoutRepost(leads) = SubSeq(filtered, 1, Min(args.top, Len(filtered)))
        /\ Len(leads) = Min(args.top, Len(filtered))

NonIncreasing(ls) == \A i \in 1..Len(ls), j \in 1..Len(ls) : i < j => ls[i].score >= ls[j].score

\* the list ls in the order p
Reordered(ls, p) == [i \in 1..Len(ls) |-> ls[p[i]]]

Orders(n) == { p \in [1..n -> 1..n] : \A i \in 1..n, j \in 1..n : i # j => p[i] # p[j] }

C15_DedupIdempotent ==
    pc = "deduped" => deduplicate_leads(deduped) = deduped

\* duplicates were dropped and two survivors have the same score
C15_Witness ==
    /\ pc = "deduped"
    /\ Len(deduped) < Len(leads)
    /\ \E i \in 1..Len(deduped), j \in 1..Len(deduped) :
          i < j /\ deduped[i].score = deduped[j].score


\* n values at indices 0 .. n - 1; k in hundredths
InterpolationAt(values, k) ==
    LET lo == k \div 100
        hi == IF lo * 100 = k THEN lo ELSE lo + 1
    IN IF lo = hi THEN 100 * values[lo + 1]
       ELSE 100 * values[lo + 1] + (values[hi + 1] - values[lo + 1]) * (k - 100 * lo)

\* C17: _percentile returns 0 for the empty list and otherwise the linear interpolation
\* between the values at floor(k) and ceil(k), k = (n - 1) * p / 100;
\* _percentile([10,20,30,40], 50) = 25, _percentile([5], 50) = 5, _percentile([], 50) = 0.
C17_PercentileInterpolates ==
    pc = "percentile" =>
        /\ args.values = <<>> => out = 0
        /\ args.values # <<>> =>
              out = InterpolationAt(args.values, (Len(args.values) - 1) * args.pct)
        /\ (args.values = <<10, 20, 30, 40>> /\ args.pct = 50) => out = 25 * 100
        /\ (args.values = <<5>> /\ args.pct = 50) => out = 5 * 100
        /\ (args.values = <<>> /\ args.pct = 50) => out = 0

\* the median of four values lies between the second and the third
C17_Witness ==
    /\ pc = "percentile"
    /\ args.values = <<10, 20, 30, 40>>
    /\ args.pct = 50
    /\ out = 2500


\* C18 as stated: for a fixed store the leads selected and their scores are the same
\* whatever the wall-clock date of the run.
C18_IndependentOfWallClock ==
    pc = "scored_all" =>
        \A now \in Clock :
            Ranking(score_leads(fetch_hot_leads(store, args.days, "vp", now),
                                _get_data_reference_date(store, now))) = Ranking(leads)


RefDay == _get_data_reference_date(store, args.now)

DayOf(j) == Strptime(Prefix(j.date_posted, 10))

CountedCurrent == SelectSeq(store, LAMBDA j : ActiveVp(j) /\ InWowCurrent(j, WowStarts(RefDay, args.days), Strftime(RefDay)))

CountedPrior == SelectSeq(store, LAMBDA j : ActiveVp(j) /\ InWowPrior(j, WowStarts(RefDay, args.days)))

DaysOf(rows) == { DayOf(rows[i]) : i \in 1..Len(rows) }

\* C19 as stated: the current and the prior window of the week-over-week percentage are
\* disjoint and adjacent and each covers exactly 7 calendar dates: no posting is counted in
\* both, and the postings counted lie in two consecutive periods of 7 dates.
C19_TwoSevenDayWindows ==
    pc \in {"industry_velocity", "geo_breakdown"} =>
        /\ \A i \in 1..Len(CountedCurrent), k \in 1..Len(CountedPrior) :
              DayOf(CountedCurrent[i]) > DayOf(CountedPrior[k])
        /\ \E first \in (RefDay - 7)..(RefDay - 6) :
              /\ DaysOf(CountedCurrent) \subseteq first..(first + 6)
              /\ DaysOf(CountedPrior) \subseteq (first - 7)..(first - 1)

Entries(ls) == { ls[i] : i \in 1..Len(ls) }

\* C20: the wow_pct of an industry or metro that is listed under two values of days is the
\* same under both.
C20_WowIndependentOfDays ==
    pc = "geo_breakdown" =>
        \A days \in LookbackDays :
            /\ \A e \in Entries(out.industry_velocity),
                  o \in Entries(compute_industry_velocity(store, days, args.now)) :
                  e.industry = o.industry => e.wow_pct = o.wow_pct
            /\ \A e \in Entries(out.geo_breakdown),
                  o \in Entries(compute_geo_breakdown(store, days, args.now)) :
                  e.metro = o.metro => e.wow_pct = o.wow_pct

\* an industry and a metro are listed under both values of days with different counts and
\* a week-over-week percentage that is not 0
C20_Witness ==
    /\ pc = "geo_breakdown"
    /\ \E days \in LookbackDays :
          /\ \E e \in Entries(out.industry_velocity),
                o \in Entries(compute_industry_velocity(store, days, args.now)) :
                e.industry = o.industry /\ e.count # o.count /\ e.wow_pct # 0
          /\ \E e \in Entries(out.geo_breakdown),
                o \in Entries(compute_geo_breakdown(store, days, args.now)) :
                e.metro = o.metro /\ e.count # o.count /\ e.wow_pct # 0


\* the titles of the active VP+ postings of a company within the lookback window
TitlesInWindow(company) ==
    { store[i].title :
        i \in { k \in 1..Len(store) :
                  /\ store[k].is_active = 1
                  /\ store[k].seniority_tier \in {"vp", "svp", "evp", "c_level"}
                  /\ store[k].company_name_normalized = company
                  /\ DayOf(store[k]) >= RefDay - args.days } } \ {None}

\* C21: every entry of compute_top_companies is a company with at least 3 distinct titles
\* among the active VP+ postings of the lookback window, is no search firm and not
\* blocked, carries the number of distinct titles as its count, and the entries are in
\* non-increasing order of count, at most 10.
C21_TopCompanies ==
    pc = "top_companies" =>
        /\ Len(out) <= 10
        /\ \A i \in 1..Len(out) :
              /\ Cardinality(TitlesInWindow(out[i].company)) >= 3
              /\ out[i].count = Cardinality(TitlesInWindow(out[i].company))
              /\ Strip(Lower(out[i].company)) \notin SEARCH_FIRMS
              /\ Strip(Lower(out[i].company)) \notin COMPANY_BLOCKLIST
        /\ \A i \in 1..Len(out), k \in 1..Len(out) : i < k => out[i].count >= out[k].count

\* Beta with four roles is listed before Acme with three roles in four postings, and the
\* search firm and the blocked company are not listed
C21_Witness ==
    /\ pc = "top_companies"
    /\ store = TopScenario
    /\ args.days = 30
    /\ Len(out) = 2
    /\ out[1].company = <<"B","e","t","a">> /\ out[1].count = 4
    /\ out[2].company = <<"A","c","m","e">> /\ out[2].count = 3


\* C22 as stated: when fetch_hot_leads is called with a floor that is no known tier, the
\* warning is printed and the tiers selected are exactly c_level, evp, svp and vp, so no
\* lead of a tier below vp is returned.
C22_UnknownFloorFallsBackToVp ==
    pc = "returned" /\ args.min_seniority \notin DOMAIN SENIORITY_RANK
        => /\ out.warned
           /\ out.tiers = <<"c_level", "evp", "svp", "vp">>
           /\ \A i \in 1..Len(leads) : InTiers(leads[i].seniority_tier, out.tiers)


\* the position of a run right after the query of fetch_hot_leads
Fetched == pc \in {"hot_fetched", "fetched_all"}

\* C23: when the query returns no lead, the next step of either CLI is the exit with code
\* 0, and it leaves the files as they are; no file has been written at that exit.
C23_NoLeadsExitZero ==
    [][Fetched /\ leads = <<>>
          => pc' = "exit 0" /\ fs' = fs /\ fs.written = {}]_vars

C23_Witness ==
    /\ pc = "exit 0" /\ args.cli = "brief" /\ args.mode = "preview"
    /\ fs.connected /\ store # <<>> /\ leads = <<>> /\ fs.written = {}

\* C24 as stated: when the store path does not exist, either CLI ends with exit code 1.
C24_MissingStoreExitOne ==
    ~fs.db => pc \in {"main", "brief_mode", "exit 1"}

\* C24 as amended: when the store path does not exist, the hot-leads CLI, and the brief CLI
\* run with --preview or --send, end with exit code 1, and the brief CLI run with neither
\* flag prints its help and ends with code 0; in every case no output directory is made,
\* no connection is opened and no file is written.
C24_MissingStoreNothingTouched ==
    ~fs.db => /\ pc \in {"main", "brief_mode", "exit 1", "exit 0"}
              /\ pc = "exit 0" => args.cli = "brief" /\ args.mode = "none"
              /\ pc = "exit 1" => args.cli = "hot" \/ args.mode # "none"
              /\ ~fs.made /\ ~fs.connected /\ fs.written = {}

C24_Witness ==
    /\ pc = "exit 1" /\ ~fs.db /\ ~fs.dir /\ args.cli = "brief" /\ args.mode = "send"


\* C25 as stated: a date_posted that is not a date never aborts a brief run: no run ends
\* with the ValueError of strptime, whatever the dates of the store are.
C25_MalformedDateNeverAborts == pc # "ValueError in strptime"


NoRepeats(names) == \A i \in 1..Len(names), j \in 1..Len(names) : names[i] = names[j] => i = j

\* C26 as stated: for a lead whose signal rows repeat an id, the team-structure list and
\* each list of extract_extra_signals (segment, deal size, comp, motion) name an id at most
\* once.
C26_EachIdListedOnce ==
    pc = "row" =>
        /\ NoRepeats(TeamLoop(lead.signals, {}, <<>>))
        /\ LET extras == extract_extra_signals(lead) IN
           \A k \in DOMAIN extras : NoRepeats(extras[k])


\* the postings the freshness step penalises: more than 14 days before the reference date
Stale(l) == Strptime(Prefix(l.date_posted, 10)) # ValueError
                /\ ref_date - Strptime(Prefix(l.date_posted, 10)) > 14

\* C27: every lead of the brief pipeline (fetched with floor vp, corrected, scored and
\* freshness-adjusted) has a final score of at least SCORE_BASE, the leads with the
\* stale-posting penalty of -5 included, at every later stage of the run.
C27_BriefScoreAtLeastBase ==
    pc \in {"scored_all", "deduped", "filtered", "reposted", "truncated", "rendering"}
        => /\ \A i \in 1..Len(leads) : leads[i].score >= SCORE_BASE
           /\ \A i \in 1..Len(deduped) : deduped[i].score >= SCORE_BASE

C27_Witness ==
    /\ pc = "scored_all"
    /\ \E i \in 1..Len(leads) :
          /\ Stale(leads[i])
          /\ leads[i].score = SCORE_BASE + SeniorityBonus(leads[i]) + 4 - 5

WithoutScore(l) == [k \in DOMAIN l \ {"score"} |-> l[k]]

\* C28: every lead is corrected before it is scored: its tier is the corrected tier of the
\* job it was fetched from, its score is the score of the lead with that tier, and a lead
\* downgraded from c_level has the seniority bonus of its new tier in its score, not that
\* of c_level.
C28_ScoredFromCorrectedTier ==
    pc = "scored_all" =>
        \A i \in 1..Len(leads) :
            LET l == leads[i]
                fetched == LeadOf(store[l.id])
            IN /\ l.seniority_tier = correct_seniority(fetched).seniority_tier
               /\ l.score = FinalScore(WithoutScore(l), ref_date)
               /\ fetched.seniority_tier = "c_level" /\ l.seniority_tier # "c_level"
                    => l.score = FinalScore(fetched, ref_date)
                                    - SCORE_SENIORITY_BONUS["c_level"]
                                    + SCORE_SENIORITY_BONUS[l.seniority_tier]

C28_Witness ==
    /\ pc = "scored_all"
    /\ \E i \in 1..Len(leads) :
          /\ store[leads[i].id].seniority_tier = "c_level"
          /\ leads[i].seniority_tier = "vp"
    /\ \E i \in 1..Len(leads) : leads[i].seniority_tier = "c_level"

\* C29 as stated: a run that got past the empty-result check has a lead list that is not
\* empty when the score range is computed, whatever the store and the value of --top.
C29_NonEmptyAtScoreRange == pc = "truncated" => leads # <<>>

\* C30: on the scored leads in any order, filtering false positives and then deduplicating
\* gives the same list as deduplicating and then filtering, and leads that share a dedup
\* key are false positives together or not at all.
C30_FilterDedupCommute ==
    pc = "scored_all" =>
        /\ \A p \in Orders(Len(leads)) :
              LET ls == Reordered(leads, p) IN
              deduplicate_leads(filter_false_positives(ls))
                  = filter_false_positives(deduplicate_leads(ls))
        /\ \A i \in 1..Len(leads), j \in 1..Len(leads) :
              DedupKey(leads[i]) = DedupKey(leads[j])
                  => (is_false_positive(leads[i]) <=> is_false_positive(leads[j]))

C30_Witness ==
    /\ pc = "scored_all"
    /\ Len(leads) = 3
    /\ \E i \in 1..3, j \in 1..3 :
          /\ i # j /\ DedupKey(leads[i]) = DedupKey(leads[j])
          /\ leads[i].title # leads[j].title
          /\ is_false_positive(leads[i])
    /\ Len(filter_false_positives(deduplicate_leads(leads))) = 1

====
